---- MODULE Spec2Model ----
\* Model of the vesting command-line client (addin-vesting/cli/src/main.rs):
\* the schedule parser parse_schedules and the remote-call sequence of every
\* subcommand of main.
\* and of the compiled parameters of the fixed-weights program
\* (addin-fixed-weights/program/src/config.rs).
EXTENDS Integers, Sequences, FiniteSets, TLC

VARIABLES
    pc,            \* position of the (single-threaded) process
    cmd,           \* the subcommand matched by main
    args,          \* the parsed command-line arguments
    schedules,     \* the Vec<VestingSchedule> returned by parse_schedules
    record,        \* the VestingRecord decoded from the fetched account data
    new_voter_weight_record_data_result,
                   \* change-owner's fetch of the new owner's voter weight
                   \* record: "none" (not fetched), "err", "empty", "data"
    units_consumed,
                   \* what the simulation reported, as limbs; <<>> before it
    param,         \* one neon_elf_param! expansion: $identifier, the constant
                   \* it renders, $value's bytes, array and i
    instructions,  \* the instruction list handed to create_transaction
    signers,       \* the signing_keypairs handed to create_transaction
    tx,            \* the transaction under construction in create_transaction
    calls,         \* the remote calls issued so far, oldest first, with results
    records,       \* list: the accounts get_program_accounts returned
    report,        \* what info, info-owner and list print
    exit           \* how the process ended: "running", "ok", "panic", "exit1"

vars == <<pc, cmd, args, schedules, record, new_voter_weight_record_data_result,
          units_consumed, param, instructions, signers, tx, calls, records, report,
          exit>>

----------------------------------------------------------------------------
\* Bounds of the explored inputs.

MaxTotal == 12      \* small totals 0..MaxTotal
MaxFreq == 3        \* release frequencies 0..MaxFreq (seconds)
MaxStart == 2       \* start timestamps 0..MaxStart
MaxEnd == 8         \* small end timestamps 0..MaxEnd
MaxAmount == 2      \* entries of a multi-entry --amounts list
MaxTime == 2        \* entries of a --release-times list
MaxListLen == 2     \* length of --amounts / --release-times lists
MaxCliAmount == 2   \* amounts and end timestamps of a whole-client run
MaxCliTime == 1     \* frequencies and release times of a whole-client run
MaxBlockhash == 2   \* blockhashes 1..MaxBlockhash the service may answer
MaxUnits == 2       \* units_consumed 0..MaxUnits a simulation may report
MaxPrice == 1       \* --compute-unit-price 0..MaxPrice
MaxPercentage == 1  \* --percentage 0..MaxPercentage
MaxAccounts == 2    \* accounts a get_program_accounts query may return

\* The period cap of parse_schedules.
MaxPeriods == 365

----------------------------------------------------------------------------
\* Option<T> and argument values.  A command-line value is missing, present
\* but rejected by its parser, or present with a parsed value.

Missing == [tag |-> "missing", v |-> 0]
Invalid == [tag |-> "invalid", v |-> 0]
Some(x) == [tag |-> "some", v |-> x]
IsSome(o) == o.tag = "some"

RECURSIVE SumRange(_, _, _)
\* s[lo] + ... + s[hi], summed by halves
SumRange(s, lo, hi) ==
    IF lo > hi THEN 0
    ELSE IF lo = hi THEN s[lo]
    ELSE LET mid == (lo + hi) \div 2
         IN  SumRange(s, lo, mid) + SumRange(s, mid + 1, hi)

\* schedule_amounts.iter().sum::<u64>()
SumAmounts(s) == SumRange(s, 1, Len(s))

----------------------------------------------------------------------------
\* parse_schedules, linear branch (--release-frequency given).
\*
\* All quantities are u64 in the source.  The values explored here stay far
\* below 2^64, where the u128 product, the narrowing of part and the sums
\* start + n * release_frequency cannot overflow.

\* part = total * release_frequency / (end - start), computed in u128.
Part(total, freq, start, end) == (total * freq) \div (end - start)

\* for n in 0..q { linear_vesting.push(start + n * release_frequency) }
LinearTimes_NoStart(q, freq, start) == [i \in 1..q |-> (i - 1) * freq]
LinearTimes_FromOne(q, freq, start) == [i \in 1..q |-> start + i * freq]
LinearTimes(q, freq, start) == [i \in 1..q |-> start + (i - 1) * freq]

\* for n in 0..q { schedule_amounts.push(part) }
EqualParts(q, part) == [i \in 1..q |-> part]

\* if r != 0 { schedule_amounts[(q - 1) as usize] += r }   (q >= 1 here)
FoldRemainder_First(amounts, q, r) ==
    IF r # 0 THEN [amounts EXCEPT ![1] = @ + r] ELSE amounts
FoldRemainder(amounts, q, r) ==
    IF r # 0 THEN [amounts EXCEPT ![q] = @ + r] ELSE amounts

\* if linear_vesting.len() > 365 { panic!(..) }
TooManyPeriods_OffByOne(times) == Len(times) > MaxPeriods + 1
TooManyPeriods(times) == Len(times) > MaxPeriods

Panic == [status |-> "panic", amounts |-> <<>>, times |-> <<>>]

\* The body of `if let Some(release_frequency_some) = release_frequency`.
\* Result: the rewritten schedule_amounts and the linear_vesting times, or
\* a panic.
linear_vesting_NoFoldNoAssert(a) ==
    IF a.freq.tag = "invalid" THEN Panic
    ELSE IF Len(a.amounts) > 1 THEN Panic
    ELSE IF ~IsSome(a.start) \/ ~IsSome(a.end) THEN Panic
    ELSE IF Len(a.amounts) = 0 THEN Panic
    ELSE IF a.end.v <= a.start.v THEN Panic
    ELSE
    LET total == a.amounts[1]
        freq  == a.freq.v
        part  == Part(total, freq, a.start.v, a.end.v)
    IN  IF part = 0 THEN Panic
        ELSE
        LET q == total \div part
            times == LinearTimes(q, freq, a.start.v)
        IN  IF TooManyPeriods(times) THEN Panic
            ELSE [status |-> "ok", amounts |-> EqualParts(q, part), times |-> times]
linear_vesting_NoAmountCheck(a) ==
    IF a.freq.tag = "invalid" THEN Panic
    ELSE IF ~IsSome(a.start) \/ ~IsSome(a.end) THEN Panic
    ELSE IF Len(a.amounts) = 0 THEN Panic
    ELSE IF a.end.v <= a.start.v THEN Panic
    ELSE
    LET total == a.amounts[1]
        part  == Part(total, a.freq.v, a.start.v, a.end.v)
    IN  IF part = 0 THEN Panic
        ELSE
        LET q == total \div part
            r == total % part
            times == LinearTimes(q, a.freq.v, a.start.v)
        IN  IF r # 0 /\ q = 0 THEN Panic
            ELSE IF TooManyPeriods(times) THEN Panic
            ELSE [status |-> "ok", amounts |-> FoldRemainder(EqualParts(q, part), q, r),
                  times |-> times]
linear_vesting(a) ==
    \* release_frequency_some.parse().unwrap() and the conversions to u64
    IF a.freq.tag = "invalid" THEN Panic
    \* panic!("Linear vesting must have one amount ...")
    ELSE IF Len(a.amounts) > 1 THEN Panic
    \* value_of("start-date-time").unwrap(), parse_from_rfc3339(..).unwrap(),
    \* timestamp().try_into().unwrap(); the same for end-date-time
    ELSE IF ~IsSome(a.start) \/ ~IsSome(a.end) THEN Panic
    \* schedule_amounts[0]
    ELSE IF Len(a.amounts) = 0 THEN Panic
    \* end - start: end = start divides by zero.  end < start overflows the
    \* u64 subtraction: a build with overflow checks panics there; a build
    \* without them continues with 2^64 - (start - end), which is more than
    \* 365 times any release frequency chrono::Duration can hold, so part is
    \* 0 (division by zero) or the period count exceeds the cap: a panic in
    \* either build.
    ELSE IF a.end.v <= a.start.v THEN Panic
    ELSE
    LET total == a.amounts[1]
        freq  == a.freq.v
        part  == Part(total, freq, a.start.v, a.end.v)
    IN  \* total / part
        IF part = 0 THEN Panic
        ELSE
        LET q == total \div part
            r == total % part
            times == LinearTimes(q, freq, a.start.v)
            parts == EqualParts(q, part)
        IN  \* schedule_amounts[(q - 1) as usize] with q = 0
            IF r # 0 /\ q = 0 THEN Panic
            ELSE IF TooManyPeriods(times) THEN Panic
            ELSE
            LET amounts == FoldRemainder(parts, q, r)
            IN  \* assert_eq!(schedule_amounts.iter().sum::<u64>(), total)
                IF SumAmounts(amounts) # total THEN Panic
                ELSE [status |-> "ok", amounts |-> amounts, times |-> times]

\* The else branch: values_of("release-times").expect(..)
explicit_times(a) ==
    IF ~IsSome(a.times) THEN Panic
    ELSE [status |-> "ok", amounts |-> a.amounts, times |-> a.times.v]

\* schedule_amounts.iter().zip(schedule_times.iter())
ZipSchedules_TimesReversed(amounts, times) ==
    [i \in 1..Len(amounts) |->
        [release_time |-> times[Len(amounts) + 1 - i], amount |-> amounts[i]]]
ZipSchedules(amounts, times) ==
    [i \in 1..Len(amounts) |-> [release_time |-> times[i], amount |-> amounts[i]]]

\* parse_schedules(arg_matches): status "ok" with the schedules, "panic", or
\* "exit1" (std::process::exit(1)).
parse_schedules_NoLengthCheck(a) ==
    LET lv == IF a.freq.tag # "missing" THEN linear_vesting(a) ELSE explicit_times(a)
        n == IF Len(lv.amounts) < Len(lv.times) THEN Len(lv.amounts) ELSE Len(lv.times)
    IN  IF lv.status # "ok" THEN [status |-> "panic", schedules |-> <<>>]
        ELSE [status |-> "ok",
              schedules |-> ZipSchedules(SubSeq(lv.amounts, 1, n), lv.times)]
parse_schedules(a) ==
    LET lv == IF a.freq.tag # "missing" THEN linear_vesting(a) ELSE explicit_times(a)
    IN  IF lv.status # "ok" THEN [status |-> "panic", schedules |-> <<>>]
        ELSE IF Len(lv.amounts) # Len(lv.times)
             THEN [status |-> "exit1", schedules |-> <<>>]
        ELSE [status |-> "ok", schedules |-> ZipSchedules(lv.amounts, lv.times)]

----------------------------------------------------------------------------
\* Inputs of parse_schedules.

Totals == (0..MaxTotal) \cup ((MaxPeriods - 1)..(MaxPeriods + 2))
            \cup {2 * MaxPeriods, 2 * MaxPeriods + 1}
EndTimes == (0..MaxEnd) \cup ((MaxPeriods - 1)..(MaxPeriods + 2))

SeqsUpTo(S, n) == UNION {[1..k -> S] : k \in 1..n}

\* --amounts: one total, or a list of several amounts
AmountLists == {<<t>> : t \in Totals}
                 \cup (SeqsUpTo(0..MaxAmount, MaxListLen) \ {<<t>> : t \in 0..MaxAmount})
FreqArgs == {Invalid} \cup {Some(f) : f \in 0..MaxFreq}
StartArgs == {Missing, Invalid} \cup {Some(t) : t \in 0..MaxStart}
EndArgs == {Missing, Invalid} \cup {Some(t) : t \in EndTimes}
TimesArgs == {Missing} \cup {Some(s) : s \in SeqsUpTo(0..MaxTime, MaxListLen)}

\* --release-frequency and --release-times conflict (clap rejects both given).
LinearArgs ==
    [amounts : AmountLists, freq : FreqArgs, start : StartArgs, end : EndArgs,
     times : {Missing}]
\* An explicit list one entry longer than the cap of the linear branch.
LongAmounts == [i \in 1..(MaxPeriods + 1) |-> 1 + (i % 2)]
LongTimes == [i \in 1..(MaxPeriods + 1) |-> i]
ExplicitArgs ==
    [amounts : AmountLists, freq : {Missing}, start : {Missing}, end : {Missing},
     times : TimesArgs]
        \cup {[amounts |-> LongAmounts, freq |-> Missing, start |-> Missing,
               end |-> Missing, times |-> Some(LongTimes)]}
ScheduleArgs == LinearArgs \cup ExplicitArgs

\* Option<Pubkey> / Option<Keypair> / Option<bool> without a value.
MissingKey == [tag |-> "missing", v |-> "none"]
MissingFlag == [tag |-> "missing", v |-> FALSE]
InvalidFlag == [tag |-> "invalid", v |-> FALSE]

\* No vesting record fetched yet, no transaction built yet, nothing printed.
NoRecord == [realm |-> MissingKey, mint |-> "none", token |-> "none", owner |-> "none",
             schedule |-> <<>>]
NoTx == [payer |-> "none", blockhash |-> 0, instrs |-> <<>>, partial_signed |-> FALSE,
         signed_by |-> {}, signed_with |-> 0]
NoParam == [identifier |-> "none", constant |-> <<>>, value |-> <<>>, array |-> <<>>,
            i |-> 0]
NoReport == [kind |-> "none", total |-> <<>>, lines |-> <<>>]

\* A run of parse_schedules alone on every input.
InitSched ==
    /\ pc = "parse_schedules"
    /\ cmd = "parse_schedules"
    /\ args \in ScheduleArgs
    /\ schedules = <<>>
    /\ record = NoRecord
    /\ new_voter_weight_record_data_result = "none"
    /\ units_consumed = <<>>
    /\ param = NoParam
    /\ instructions = <<>>
    /\ signers = {}
    /\ tx = NoTx
    /\ calls = <<>>
    /\ records = <<>>
    /\ report = NoReport
    /\ exit = "running"

ParseSchedulesStep ==
    /\ pc = "parse_schedules"
    /\ LET res == parse_schedules(args)
       IN  /\ schedules' = res.schedules
           /\ pc' = IF res.status = "ok" THEN "parsed" ELSE "aborted"
           /\ exit' = IF res.status = "ok" THEN "ok" ELSE res.status
    /\ UNCHANGED <<records, param, units_consumed, new_voter_weight_record_data_result,
                   cmd, args, record, instructions, signers, tx, calls, report>>

NextSched == ParseSchedulesStep

SpecSched == InitSched /\ [][NextSched]_vars

----------------------------------------------------------------------------
\* Properties of the linear schedule expansion (checked under SpecSched).

\* A schedule was returned for a --release-frequency invocation.
LinearReturned == pc = "parsed" /\ args.freq.tag # "missing"

ScheduleAmounts == [i \in 1..Len(schedules) |-> schedules[i].amount]
ArgTotal == args.amounts[1]
ArgSpan == args.end.v - args.start.v

\* C1: the per-period amounts of a returned linear schedule sum exactly to
\* the total given in --amounts.
C1_SumIsTotal ==
    LinearReturned => SumAmounts(ScheduleAmounts) = ArgTotal

C1_Witness ==
    /\ LinearReturned
    /\ Len(schedules) >= 2
    /\ schedules[Len(schedules)].amount # schedules[1].amount

\* C2: after parse_schedules ran on a linear invocation, either the process
\* aborted and no schedule exists, or the schedule has at most 365 entries.
C2_AtMost365 ==
    (pc # "parse_schedules" /\ args.freq.tag # "missing") =>
        \/ pc = "aborted" /\ schedules = <<>>
        \/ pc = "parsed" /\ Len(schedules) <= 365

C2_Witness == LinearReturned /\ Len(schedules) = 365

\* C3: every period but the last has amount part, the last has
\* part + (total mod part), with part = floor(total * frequency / (end - start)).
C3_RemainderInLast ==
    LinearReturned =>
        LET part == (ArgTotal * args.freq.v) \div ArgSpan
            n == Len(schedules)
        IN  /\ n >= 1
            /\ \A i \in 1..(n - 1) : schedules[i].amount = part
            /\ schedules[n].amount = part + (ArgTotal % part)

C3_Witness ==
    /\ LinearReturned
    /\ Len(schedules) >= 2
    /\ ArgTotal % ((ArgTotal * args.freq.v) \div ArgSpan) # 0

\* C4 as stated: every release time t of a returned linear schedule
\* satisfies start <= t <= end.
C4_TimesWithinStartEnd ==
    LinearReturned =>
        \A i \in 1..Len(schedules) :
            /\ args.start.v <= schedules[i].release_time
            /\ schedules[i].release_time <= args.end.v

\* C4 as amended: every release time t of a returned linear schedule
\* satisfies start <= t, and t <= end whenever total * frequency is an exact
\* multiple of end - start (otherwise releases may fall after the end date).
C4_TimesFromStart ==
    LinearReturned =>
        \A i \in 1..Len(schedules) :
            /\ args.start.v <= schedules[i].release_time
            /\ ((ArgTotal * args.freq.v) % ArgSpan = 0
                    => schedules[i].release_time <= args.end.v)

C4_Witness ==
    /\ LinearReturned
    /\ args.start.v > 0
    /\ Len(schedules) >= 2
    /\ (ArgTotal * args.freq.v) % ArgSpan = 0
    /\ schedules[Len(schedules)].release_time + args.freq.v = args.end.v

\* C5: when end - start is an exact multiple k of the release frequency, the
\* returned schedule has k + 1 periods, the first at start, the last at end.
C5_ExactMultipleGivesKPlusOne ==
    (LinearReturned /\ ArgSpan % args.freq.v = 0) =>
        /\ Len(schedules) = (ArgSpan \div args.freq.v) + 1
        /\ schedules[1].release_time = args.start.v
        /\ schedules[Len(schedules)].release_time = args.end.v

\* C6: release_time[n] = start + n * frequency for every period index n
\* (counted from 0), so release times are strictly increasing.
C6_EquallySpaced ==
    LinearReturned =>
        /\ \A i \in 1..Len(schedules) :
              schedules[i].release_time = args.start.v + (i - 1) * args.freq.v
        /\ \A i \in 1..(Len(schedules) - 1) :
              schedules[i].release_time < schedules[i + 1].release_time

C6_Witness == LinearReturned /\ Len(schedules) >= 3 /\ args.freq.v >= 2

----------------------------------------------------------------------------
\* The client: main, the command_* functions and create_transaction.

TxCommands == {"deposit", "withdraw", "change-owner", "create-voter-weight-record",
               "set-vote-percentage", "split"}
ReportCommands == {"info", "info-owner", "list"}
Commands == TxCommands \cup ReportCommands

\* The signer each subcommand resolves with get_signer.
OwnSigner(c) ==
    CASE c = "deposit" -> "source_owner"
      [] c \in {"withdraw", "change-owner", "split"} -> "vesting_owner"
      [] c = "set-vote-percentage" -> "vesting_authority"
      [] OTHER -> "none"

\* payer_keypair.as_ref().map(|v| v as &dyn Signer).unwrap_or(&*signer);
\* create-voter-weight-record unwraps the (required) payer keypair.
PayerOf_VestingOwnerDefault(c, a) == IF IsSome(a.payer) THEN a.payer.v ELSE "vesting_owner"
PayerOf(c, a) == IF IsSome(a.payer) THEN a.payer.v ELSE OwnSigner(c)

\* Pubkey::find_program_address(&[token.as_ref()], &vesting_addin_program_id)
VestingAddress(token) == <<"vesting_address", token>>

\* The instruction builders the client calls.
create_account(funder, account) ==
    [op |-> "create_account", funder |-> funder, account |-> account]
initialize_account(account, mint, authority) ==
    [op |-> "initialize_account", account |-> account, mint |-> mint,
     authority |-> authority]
deposit_with_realm(token, owner, payer, sched, realm, mint) ==
    [op |-> "deposit_with_realm", account |-> token, owner |-> owner, payer |-> payer,
     schedules |-> sched, realm |-> realm, mint |-> mint]
deposit(token, owner, payer, sched) ==
    [op |-> "deposit", account |-> token, owner |-> owner, payer |-> payer,
     schedules |-> sched]
withdraw_with_realm(token, owner, realm, mint) ==
    [op |-> "withdraw_with_realm", account |-> token, owner |-> owner, realm |-> realm,
     mint |-> mint]
withdraw(token, owner) ==
    [op |-> "withdraw", account |-> token, owner |-> owner]
change_owner_with_realm(token, owner, new_owner, realm, mint) ==
    [op |-> "change_owner_with_realm", account |-> token, owner |-> owner,
     new_owner |-> new_owner, realm |-> realm, mint |-> mint]
change_owner(token, owner, new_owner) ==
    [op |-> "change_owner", account |-> token, owner |-> owner, new_owner |-> new_owner]
create_voter_weight_record(record_owner, payer, realm, mint) ==
    [op |-> "create_voter_weight_record", owner |-> record_owner, payer |-> payer,
     realm |-> realm, mint |-> mint]
set_vote_percentage_with_realm(owner, authority, realm, mint, percentage) ==
    [op |-> "set_vote_percentage_with_realm", owner |-> owner, authority |-> authority,
     realm |-> realm, mint |-> mint, percentage |-> percentage]
split_with_realm(token, owner, new_token, new_owner, payer, sched, realm, mint) ==
    [op |-> "split_with_realm", account |-> token, owner |-> owner,
     new_account |-> new_token, new_owner |-> new_owner, payer |-> payer,
     schedules |-> sched, realm |-> realm, mint |-> mint]
split(token, owner, new_token, new_owner, payer, sched) ==
    [op |-> "split", account |-> token, owner |-> owner, new_account |-> new_token,
     new_owner |-> new_owner, payer |-> payer, schedules |-> sched]
set_compute_unit_limit(units) == [op |-> "set_compute_unit_limit", units |-> units]
set_compute_unit_price(price) == [op |-> "set_compute_unit_price", price |-> price]

\* A u64 is written as eight 8-bit limbs, least significant first, and a
\* u32 as four, so that no intermediate value leaves the checker's integers.
Limb == 2^8
U64Limbs == 64 \div 8
U32Limbs == 32 \div 8
Zeros(k) == [j \in 1..k |-> 0]
RECURSIVE ToLimbs(_, _)
ToLimbs(n, k) == IF k = 0 THEN <<>> ELSE <<n % Limb>> \o ToLimbs(n \div Limb, k - 1)
U64(n) == ToLimbs(n, U64Limbs)

\* x * m + c on limbs: Len(x) limbs of the result, then the carry out of
\* the most significant limb.
RECURSIVE MulAdd(_, _, _)
MulAdd(x, m, c) ==
    IF x = <<>> THEN <<c>>
    ELSE LET t == Head(x) * m + c
         IN  <<t % Limb>> \o MulAdd(Tail(x), m, t \div Limb)

\* floor((r * Limb^Len(x) + x) / d) on limbs, for r < d.
RECURSIVE DivSmall(_, _, _)
DivSmall(x, d, r) ==
    IF x = <<>> THEN <<>>
    ELSE LET n == Len(x)
             t == r * Limb + x[n]
         IN  DivSmall(SubSeq(x, 1, n - 1), d, t % d) \o <<t \div d>>

\* x + y + c on limb sequences of one length, the carry out dropped.
RECURSIVE AddLimbs(_, _, _)
AddLimbs(x, y, c) ==
    IF x = <<>> THEN <<>>
    ELSE LET t == Head(x) + Head(y) + c
         IN  <<t % Limb>> \o AddLimbs(Tail(x), Tail(y), t \div Limb)

\* x < y on limb sequences of one length.
RECURSIVE Less(_, _)
Less(x, y) ==
    IF x = <<>> THEN FALSE
    ELSE LET n == Len(x)
         IN  \/ x[n] < y[n]
             \/ x[n] = y[n] /\ Less(SubSeq(x, 1, n - 1), SubSeq(y, 1, n - 1))

\* iter().sum::<u64>(): the sum of u64 values; when it passes 2^64 - 1 a
\* build with overflow checks panics and one without wraps.
RECURSIVE WideSum(_)
WideSum(s) ==
    IF s = <<>> THEN Zeros(U64Limbs + 1)
    ELSE AddLimbs(WideSum(Tail(s)), Head(s) \o <<0>>, 0)
sum_u64(s, overflow_checks) ==
    IF overflow_checks /\ WideSum(s)[U64Limbs + 1] # 0
    THEN [status |-> "panic", v |-> <<>>]
    ELSE [status |-> "ok", v |-> SubSeq(WideSum(s), 1, U64Limbs)]

\* let units_consumed = result.value.units_consumed.expect(..) + 300;
\* ((units_consumed * 110) / 100) as u32
\* in u64 arithmetic: an overflowing + or * panics in a build with overflow
\* checks and wraps in one without; `as u32` keeps the low 32 bits.
ComputeUnitLimit(consumed, overflow_checks) ==
    LET sum  == MulAdd(consumed, 1, 300)
        prod == MulAdd(SubSeq(sum, 1, U64Limbs), 110, 0)
        quot == DivSmall(SubSeq(prod, 1, U64Limbs), 100, 0)
    IN  IF overflow_checks /\ (sum[U64Limbs + 1] # 0 \/ prod[U64Limbs + 1] # 0)
        THEN [status |-> "panic", limit |-> <<>>]
        ELSE [status |-> "ok", limit |-> SubSeq(quot, 1, U32Limbs)]

----------------------------------------------------------------------------
\* Command lines of a whole-client run.

\* --amounts, --release-times and the linear options of deposit and split
CliAmountLists ==
    {<<t>> : t \in 1..MaxCliAmount} \cup {<<t, t>> : t \in 1..MaxCliAmount}
CliTimesArgs ==
    {Missing} \cup {Some(<<t>>) : t \in 1..MaxCliTime}
              \cup {Some(<<t, t + 1>>) : t \in 1..MaxCliTime}
CliScheduleArgs ==
    [amounts : CliAmountLists, freq : {Some(f) : f \in 1..MaxCliTime},
     start : {Some(0)}, end : {Some(t) : t \in 0..MaxCliAmount}, times : {Missing}]
    \cup
    [amounts : CliAmountLists, freq : {Missing}, start : {Missing}, end : {Missing},
     times : CliTimesArgs]
NoScheduleArgs ==
    {[amounts |-> <<>>, freq |-> Missing, start |-> Missing, end |-> Missing,
      times |-> Missing]}

SchedArgsOf(c) == IF c \in {"deposit", "split"} THEN CliScheduleArgs ELSE NoScheduleArgs
\* --compute-unit-price is a global option
PriceArgs == {Missing} \cup {Some(p) : p \in 0..MaxPrice}
\* --confirm (deposit only): omitted, unparsable, or a bool
ConfirmArgsOf(c) ==
    IF c = "deposit"
    THEN {MissingFlag, InvalidFlag, Some(TRUE), Some(FALSE)}
    ELSE {MissingFlag}
\* .default_value("true"): an omitted --confirm reads as true
ConfirmValue_DefaultFalse(a) == IF a.confirm.tag = "missing" THEN Some(FALSE) ELSE a.confirm
ConfirmValue(a) == IF a.confirm.tag = "missing" THEN Some(TRUE) ELSE a.confirm
\* --payer: optional, required for create-voter-weight-record, absent for reports
PayerArgsOf(c) ==
    CASE c = "create-voter-weight-record" -> {Some("payer_keypair")}
      [] c \in ReportCommands -> {MissingKey}
      [] OTHER -> {MissingKey, Some("payer_keypair"), Some(OwnSigner(c))}
\* --percentage (set-vote-percentage only), parsed as u16
PercentageArgsOf(c) ==
    IF c = "set-vote-percentage"
    THEN {Invalid} \cup {Some(p) : p \in 0..MaxPercentage}
    ELSE {Missing}
\* --realm_address: required for these subcommands
RealmArgsOf(c) ==
    IF c \in {"deposit", "create-voter-weight-record", "set-vote-percentage"}
    THEN {Some("realm_address")}
    ELSE {MissingKey}

CliArgs(c) ==
    {[amounts |-> s.amounts, freq |-> s.freq, start |-> s.start, end |-> s.end,
      times |-> s.times, price |-> p, confirm |-> cf, payer |-> py,
      percentage |-> pct, realm |-> rl] :
        s \in SchedArgsOf(c), p \in PriceArgs, cf \in ConfirmArgsOf(c),
        py \in PayerArgsOf(c), pct \in PercentageArgsOf(c), rl \in RealmArgsOf(c)}

----------------------------------------------------------------------------
\* What the remote service may answer.

\* The schedules of the records on chain; amounts are u64, among them 2^63.
HalfRange == <<0, 0, 0, 0, 0, 0, 0, Limb \div 2>>
RecordSchedules ==
    {<<>>,
     <<[release_time |-> 1, amount |-> U64(1)]>>,
     <<[release_time |-> 1, amount |-> U64(1)], [release_time |-> 2, amount |-> U64(2)]>>,
     <<[release_time |-> 1, amount |-> HalfRange]>>}
VestingRecords ==
    [realm : {MissingKey, Some("record_realm")}, mint : {"record_mint"},
     token : {"token_a", "token_b"}, owner : {"record_owner"},
     schedule : RecordSchedules]

\* get_account_data(&vesting_pubkey) followed by try_from_slice_unchecked:
\* the call fails, or the data does not decode, or it is a VestingRecord.
AccountData ==
    {[decodes |-> FALSE, rec |-> NoRecord]}
        \cup {[decodes |-> TRUE, rec |-> r] : r \in VestingRecords}
FetchResults ==
    {[ok |-> FALSE, decodes |-> FALSE, rec |-> NoRecord]}
        \cup {[ok |-> TRUE, decodes |-> d.decodes, rec |-> d.rec] : d \in AccountData}

\* get_program_accounts_with_config: the call fails, or returns accounts.
ProgramAccounts == {<<>>} \cup SeqsUpTo(AccountData, MaxAccounts)

\* simulate_transaction: the call fails, or reports units_consumed or none.
UnitsMissing == [tag |-> "missing", v |-> <<>>]
\* u64 values whose 32-bit halves are all zeros or all ones: 0, 2^32 - 1,
\* 2^64 - 2^32 and 2^64 - 1.
HalfPatterns ==
    {<<a, a, a, a, b, b, b, b>> : a \in {0, Limb - 1}, b \in {0, Limb - 1}}
\* units_consumed is a u64: small values and the half patterns.
UnitsConsumed == {U64(n) : n \in 0..MaxUnits} \cup HalfPatterns
SimulationResults ==
    {[ok |-> FALSE, units |-> UnitsMissing]}
        \cup {[ok |-> TRUE, units |-> u] :
                u \in {UnitsMissing} \cup {Some(n) : n \in UnitsConsumed}}

\* One entry of the log of remote calls.
Call(kind, target, ok, blockhash) ==
    [kind |-> kind, target |-> target, ok |-> ok, blockhash |-> blockhash]

----------------------------------------------------------------------------
\* The process.

Init ==
    /\ pc = "main"
    /\ cmd \in Commands
    /\ args \in CliArgs(cmd)
    /\ schedules = <<>>
    /\ record = NoRecord
    /\ new_voter_weight_record_data_result = "none"
    /\ units_consumed = <<>>
    /\ param = NoParam
    /\ instructions = <<>>
    /\ signers = {}
    /\ tx = NoTx
    /\ calls = <<>>
    /\ records = <<>>
    /\ report = NoReport
    /\ exit = "running"

\* A panic (unwrap, expect, assert) or std::process::exit(1) ends the process.
Abort(how) == pc' = "aborted" /\ exit' = how

\* The call of create_transaction(&rpc_client, &instrs, payer, &keys, price).
CallCreateTransaction(instrs, keys) ==
    /\ instructions' = instrs
    /\ signers' = keys
    /\ tx' = [NoTx EXCEPT !.payer = PayerOf(cmd, args)]
    /\ pc' = "create_transaction"
    /\ UNCHANGED exit

\* The three instructions of deposit and split around a fresh token account.
FreshAccountInstructions_InitializeFirst(funder, mint, last) ==
    <<initialize_account("vesting_token_keypair", mint,
                         VestingAddress("vesting_token_keypair")),
      create_account(funder, "vesting_token_keypair"),
      last>>
FreshAccountInstructions(funder, mint, last) ==
    <<create_account(funder, "vesting_token_keypair"),
      initialize_account("vesting_token_keypair", mint,
                         VestingAddress("vesting_token_keypair")),
      last>>

\* main, ("deposit", ..) arm, with command_deposit_with_realm_svc /
\* command_deposit_svc up to their call of create_transaction.
MainDeposit ==
    /\ pc = "main" /\ cmd = "deposit"
    /\ LET res == parse_schedules(args)
           payer == PayerOf(cmd, args)
       IN  \* value_of(arg_matches, "confirm").unwrap()
           IF ~IsSome(ConfirmValue(args))
           THEN Abort("panic") /\ UNCHANGED <<schedules, instructions, signers, tx>>
           ELSE IF res.status # "ok"
           THEN Abort(res.status) /\ UNCHANGED <<schedules, instructions, signers, tx>>
           ELSE /\ schedules' = res.schedules
                /\ CallCreateTransaction(
                     FreshAccountInstructions("source_owner", "mint_address",
                        IF IsSome(args.realm)
                        THEN deposit_with_realm("vesting_token_keypair", "source_owner",
                                 payer, res.schedules, args.realm.v, "mint_address")
                        ELSE deposit("vesting_token_keypair", "source_owner", payer,
                                 res.schedules)),
                     {"vesting_token_keypair", "source_owner"})
    /\ UNCHANGED <<records, param, units_consumed, new_voter_weight_record_data_result,
                   cmd, args, record, calls, report>>

\* main, ("withdraw", ..) arm, with command_withdraw_with_realm_svc /
\* command_withdraw_svc up to their call of create_transaction.
MainWithdraw_ArgumentRealm ==
    /\ pc = "main" /\ cmd = "withdraw"
    /\ \E d \in FetchResults :
        /\ calls' = Append(calls, Call("get_account_data", "vesting_record", d.ok, 0))
        /\ IF ~d.ok \/ ~d.decodes
           THEN Abort("panic") /\ UNCHANGED <<record, instructions, signers, tx>>
           ELSE /\ record' = d.rec
                /\ CallCreateTransaction(
                     IF IsSome(d.rec.realm)
                     THEN <<withdraw_with_realm("vesting_address", "vesting_owner",
                                "realm_address", "mint_address")>>
                     ELSE <<withdraw("vesting_address", "vesting_owner")>>,
                     {"vesting_owner"})
    /\ UNCHANGED <<records, param, units_consumed, new_voter_weight_record_data_result,
                   cmd, args, schedules, report>>
MainWithdraw ==
    /\ pc = "main" /\ cmd = "withdraw"
    /\ \E d \in FetchResults :
        /\ calls' = Append(calls, Call("get_account_data", "vesting_record", d.ok, 0))
        /\ IF ~d.ok \/ ~d.decodes
           THEN Abort("panic") /\ UNCHANGED <<record, instructions, signers, tx>>
           ELSE /\ record' = d.rec
                /\ CallCreateTransaction(
                     IF IsSome(d.rec.realm)
                     THEN <<withdraw_with_realm("vesting_address", "vesting_owner",
                                d.rec.realm.v, d.rec.mint)>>
                     ELSE <<withdraw("vesting_address", "vesting_owner")>>,
                     {"vesting_owner"})
    /\ UNCHANGED <<records, param, units_consumed, new_voter_weight_record_data_result,
                   cmd, args, schedules, report>>

\* main, ("change-owner", ..) arm, with command_change_owner up to its call
\* of create_transaction.
MainChangeOwner ==
    /\ pc = "main" /\ cmd = "change-owner"
    /\ \E d \in FetchResults :
        /\ calls' = Append(calls, Call("get_account_data", "vesting_record", d.ok, 0))
        /\ IF ~d.ok \/ ~d.decodes
           THEN Abort("panic") /\ UNCHANGED <<record, instructions, signers, tx>>
           ELSE /\ record' = d.rec
                /\ IF IsSome(d.rec.realm)
                   THEN /\ pc' = "command_change_owner_with_realm"
                        /\ UNCHANGED <<instructions, signers, tx, exit>>
                   ELSE CallCreateTransaction(
                          <<change_owner("vesting_address", "vesting_owner",
                                "new_vesting_owner")>>,
                          {"vesting_owner"})
    /\ UNCHANGED <<records, param, units_consumed, new_voter_weight_record_data_result,
                   cmd, args, schedules, report>>

\* command_change_owner_with_realm up to its call of create_transaction: the
\* new owner's voter weight record is created when fetching it failed or
\* returned no data.
CommandChangeOwnerWithRealm_OnlyOnError ==
    /\ pc = "command_change_owner_with_realm"
    /\ \E res \in {"err", "empty", "data"} :
        /\ calls' = Append(calls, Call("get_account_data", "new_voter_weight_record",
                                       res # "err", 0))
        /\ new_voter_weight_record_data_result' = res
        /\ CallCreateTransaction(
             (IF res = "err"
              THEN <<create_voter_weight_record("new_vesting_owner",
                        PayerOf(cmd, args), record.realm.v, record.mint)>>
              ELSE <<>>)
             \o <<change_owner_with_realm("vesting_address", "vesting_owner",
                     "new_vesting_owner", record.realm.v, record.mint)>>,
             {"vesting_owner"})
    /\ UNCHANGED <<records, param, units_consumed, cmd, args, schedules, record,
                   report>>
CommandChangeOwnerWithRealm ==
    /\ pc = "command_change_owner_with_realm"
    /\ \E res \in {"err", "empty", "data"} :
        /\ calls' = Append(calls, Call("get_account_data", "new_voter_weight_record",
                                       res # "err", 0))
        /\ new_voter_weight_record_data_result' = res
        /\ CallCreateTransaction(
             (IF res \in {"err", "empty"}
              THEN <<create_voter_weight_record("new_vesting_owner",
                        PayerOf(cmd, args), record.realm.v, record.mint)>>
              ELSE <<>>)
             \o <<change_owner_with_realm("vesting_address", "vesting_owner",
                     "new_vesting_owner", record.realm.v, record.mint)>>,
             {"vesting_owner"})
    /\ UNCHANGED <<records, param, units_consumed, cmd, args, schedules, record,
                   report>>

\* main, ("create-voter-weight-record", ..) arm, with
\* command_create_voter_weight_record up to its call of create_transaction.
MainCreateVoterWeightRecord_NoTransaction ==
    /\ pc = "main" /\ cmd = "create-voter-weight-record"
    /\ pc' = "done" /\ exit' = "ok"
    /\ UNCHANGED <<records, param, units_consumed, new_voter_weight_record_data_result,
                   cmd, args, schedules, record, instructions, signers, tx, calls,
                   report>>
MainCreateVoterWeightRecord ==
    /\ pc = "main" /\ cmd = "create-voter-weight-record"
    /\ CallCreateTransaction(
         <<create_voter_weight_record("record_owner", PayerOf(cmd, args),
              args.realm.v, "mint_address")>>,
         {PayerOf(cmd, args)})
    /\ UNCHANGED <<records, param, units_consumed, new_voter_weight_record_data_result,
                   cmd, args, schedules, record, calls, report>>

\* main, ("set-vote-percentage", ..) arm, with
\* command_set_vote_percentage_with_realm up to its call of create_transaction.
MainSetVotePercentage ==
    /\ pc = "main" /\ cmd = "set-vote-percentage"
    /\ \* value_of::<u16>(arg_matches, "percentage").unwrap()
       IF ~IsSome(args.percentage)
       THEN Abort("panic") /\ UNCHANGED <<instructions, signers, tx>>
       ELSE CallCreateTransaction(
              <<set_vote_percentage_with_realm("vesting_owner", "vesting_authority",
                   args.realm.v, "mint_address", args.percentage.v)>>,
              {"vesting_authority"})
    /\ UNCHANGED <<records, param, units_consumed, new_voter_weight_record_data_result,
                   cmd, args, schedules, record, calls, report>>

\* main, ("split", ..) arm up to the call of command_split.
MainSplit ==
    /\ pc = "main" /\ cmd = "split"
    /\ LET res == parse_schedules(args)
       IN  IF res.status # "ok"
           THEN Abort(res.status) /\ UNCHANGED schedules
           ELSE schedules' = res.schedules /\ pc' = "command_split" /\ UNCHANGED exit
    /\ UNCHANGED <<records, param, units_consumed, new_voter_weight_record_data_result,
                   cmd, args, record, instructions, signers, tx, calls, report>>

\* command_split up to its call of create_transaction.
CommandSplit ==
    /\ pc = "command_split"
    /\ \E d \in FetchResults :
        /\ calls' = Append(calls, Call("get_account_data", "vesting_record", d.ok, 0))
        /\ IF ~d.ok \/ ~d.decodes
           THEN Abort("panic") /\ UNCHANGED <<record, instructions, signers, tx>>
           ELSE /\ record' = d.rec
                /\ CallCreateTransaction(
                     FreshAccountInstructions(PayerOf(cmd, args), d.rec.mint,
                        IF IsSome(d.rec.realm)
                        THEN split_with_realm("vesting_address", "vesting_owner",
                                 "vesting_token_keypair", "new_vesting_owner",
                                 PayerOf(cmd, args), schedules, d.rec.realm.v,
                                 d.rec.mint)
                        ELSE split("vesting_address", "vesting_owner",
                                 "vesting_token_keypair", "new_vesting_owner",
                                 PayerOf(cmd, args), schedules)),
                     {"vesting_owner", "vesting_token_keypair"})
    /\ UNCHANGED <<records, param, units_consumed, new_voter_weight_record_data_result,
                   cmd, args, schedules, report>>

----------------------------------------------------------------------------
\* create_transaction.

\* The tail of create_transaction: instrs.extend_from_slice(instructions),
\* Transaction::new_with_payer, try_partial_sign by the payer when its key is
\* not among signing_keypairs, try_sign, and the caller's unwrap of the result.
SignAndReturn_BudgetLast(t, prefix, sign_ok) ==
    IF sign_ok
    THEN /\ tx' = [t EXCEPT !.instrs = instructions \o prefix,
                            !.partial_signed = (t.payer \notin signers),
                            !.signed_by = signers \cup {t.payer},
                            !.signed_with = t.blockhash]
         /\ pc' = "send_transaction"
         /\ UNCHANGED exit
    ELSE /\ tx' = [t EXCEPT !.instrs = instructions \o prefix]
         /\ Abort("panic")
SignAndReturn_PayerNeverSigns(t, prefix, sign_ok) ==
    IF sign_ok
    THEN /\ tx' = [t EXCEPT !.instrs = prefix \o instructions,
                            !.signed_by = signers,
                            !.signed_with = t.blockhash]
         /\ pc' = "send_transaction"
         /\ UNCHANGED exit
    ELSE /\ tx' = [t EXCEPT !.instrs = prefix \o instructions]
         /\ Abort("panic")
SignAndReturn(t, prefix, sign_ok) ==
    IF sign_ok
    THEN /\ tx' = [t EXCEPT !.instrs = prefix \o instructions,
                            !.partial_signed = (t.payer \notin signers),
                            !.signed_by = signers \cup {t.payer},
                            !.signed_with = t.blockhash]
         /\ pc' = "send_transaction"
         /\ UNCHANGED exit
    ELSE /\ tx' = [t EXCEPT !.instrs = prefix \o instructions]
         /\ Abort("panic")

\* create_transaction from its entry to the simulation (or, without a
\* compute-unit price, to its return): get_latest_blockhash().expect(..).
GetLatestBlockhash_IgnoreError ==
    /\ pc = "create_transaction"
    /\ \E ok \in BOOLEAN, h \in 1..MaxBlockhash, sign_ok \in BOOLEAN :
        /\ calls' = Append(calls, Call("get_latest_blockhash", "blockhash", ok,
                                       IF ok THEN h ELSE 0))
        /\ IF IsSome(args.price)
           THEN /\ tx' = [tx EXCEPT !.blockhash = IF ok THEN h ELSE 0]
                /\ pc' = "simulate_transaction"
                /\ UNCHANGED exit
           ELSE SignAndReturn([tx EXCEPT !.blockhash = IF ok THEN h ELSE 0], <<>>,
                              sign_ok)
    /\ UNCHANGED <<records, param, units_consumed, new_voter_weight_record_data_result,
                   cmd, args, schedules, record, instructions, signers, report>>
GetLatestBlockhash_NoSimulate ==
    /\ pc = "create_transaction"
    /\ \E ok \in BOOLEAN, h \in 1..MaxBlockhash, sign_ok \in BOOLEAN :
        IF ~ok
        THEN /\ calls' = Append(calls, Call("get_latest_blockhash", "blockhash",
                                            FALSE, 0))
             /\ Abort("panic")
             /\ UNCHANGED tx
        ELSE /\ calls' = Append(calls, Call("get_latest_blockhash", "blockhash",
                                            TRUE, h))
             /\ SignAndReturn([tx EXCEPT !.blockhash = h], <<>>, sign_ok)
    /\ UNCHANGED <<records, param, units_consumed, new_voter_weight_record_data_result,
                   cmd, args, schedules, record, instructions, signers, report>>
GetLatestBlockhash ==
    /\ pc = "create_transaction"
    /\ \E ok \in BOOLEAN, h \in 1..MaxBlockhash, sign_ok \in BOOLEAN :
        IF ~ok
        THEN /\ calls' = Append(calls, Call("get_latest_blockhash", "blockhash",
                                            FALSE, 0))
             /\ Abort("panic")
             /\ UNCHANGED tx
        ELSE /\ calls' = Append(calls, Call("get_latest_blockhash", "blockhash",
                                            TRUE, h))
             /\ IF IsSome(args.price)
                THEN /\ tx' = [tx EXCEPT !.blockhash = h]
                     /\ pc' = "simulate_transaction"
                     /\ UNCHANGED exit
                ELSE SignAndReturn([tx EXCEPT !.blockhash = h], <<>>, sign_ok)
    /\ UNCHANGED <<records, param, units_consumed, new_voter_weight_record_data_result,
                   cmd, args, schedules, record, instructions, signers, report>>

\* create_transaction from the simulation to its return:
\* simulate_transaction(..).expect(..), units_consumed.expect(..) + 300, the
\* two compute-budget instructions, then the tail.
SimulateTransaction ==
    /\ pc = "simulate_transaction"
    /\ \E res \in SimulationResults, sign_ok \in BOOLEAN, overflow_checks \in BOOLEAN :
        /\ calls' = Append(calls, Call("simulate_transaction", "transaction", res.ok,
                                       tx.blockhash))
        /\ IF ~res.ok \/ ~IsSome(res.units)
           THEN Abort("panic") /\ UNCHANGED <<tx, units_consumed>>
           ELSE LET limit == ComputeUnitLimit(res.units.v, overflow_checks)
                IN  /\ units_consumed' = res.units.v
                    /\ IF limit.status # "ok"
                       THEN Abort("panic") /\ UNCHANGED tx
                       ELSE SignAndReturn(tx,
                                <<set_compute_unit_limit(limit.limit),
                                  set_compute_unit_price(args.price.v)>>,
                                sign_ok)
    /\ UNCHANGED <<records, param, new_voter_weight_record_data_result,
                   cmd, args, schedules, record, instructions, signers, report>>

\* The submission that ends every command_* function of a transaction
\* subcommand: deposit with --confirm true waits for confirmation.
SendKind ==
    IF cmd = "deposit" /\ ConfirmValue(args).v
    THEN "send_and_confirm_transaction"
    ELSE "send_transaction"
SendKinds == {"send_transaction", "send_and_confirm_transaction"}

SendTransaction_RetryOnce ==
    /\ pc = "send_transaction"
    /\ \E ok \in BOOLEAN :
        /\ calls' = Append(calls, Call(SendKind, "transaction", ok, tx.signed_with))
        /\ IF ok THEN pc' = "done" /\ exit' = "ok"
           ELSE IF \E i \in 1..Len(calls) : calls[i].kind \in SendKinds
                THEN Abort("panic")
                ELSE UNCHANGED <<pc, exit>>
    /\ UNCHANGED <<records, param, units_consumed, new_voter_weight_record_data_result,
                   cmd, args, schedules, record, instructions, signers, tx, report>>
SendTransaction ==
    /\ pc = "send_transaction"
    /\ \E ok \in BOOLEAN :
        /\ calls' = Append(calls, Call(SendKind, "transaction", ok, tx.signed_with))
        /\ IF ok THEN pc' = "done" /\ exit' = "ok" ELSE Abort("panic")
    /\ UNCHANGED <<records, param, units_consumed, new_voter_weight_record_data_result,
                   cmd, args, schedules, record, instructions, signers, tx, report>>

----------------------------------------------------------------------------
\* The reports.

\* vesting_record.schedule.iter().map(|v| v.amount).sum::<u64>()
RecordAmount(rec, overflow_checks) ==
    sum_u64([i \in 1..Len(rec.schedule) |-> rec.schedule[i].amount], overflow_checks)

\* Info {token, owner, amount} of command_list
Info(rec, overflow_checks) ==
    [token |-> rec.token, owner |-> rec.owner,
     amount |-> RecordAmount(rec, overflow_checks).v]

\* accounts.sort_by(|l, r| l.amount.cmp(&r.amount).reverse()): a stable sort
RECURSIVE InsertByAmount(_, _)
InsertByAmount(x, s) ==
    IF s = <<>> THEN <<x>>
    ELSE IF ~Less(x.amount, Head(s).amount) THEN <<x>> \o s
    ELSE <<Head(s)>> \o InsertByAmount(x, Tail(s))
RECURSIVE SortByAmount(_)
SortByAmount(s) ==
    IF s = <<>> THEN <<>> ELSE InsertByAmount(Head(s), SortByAmount(Tail(s)))

\* The accounts before the first one whose data does not decode.
RECURSIVE DecodedPrefix(_)
DecodedPrefix(accounts) ==
    IF accounts = <<>> \/ ~Head(accounts).decodes THEN <<>>
    ELSE <<Head(accounts).rec>> \o DecodedPrefix(Tail(accounts))

\* main, ("info", ..) arm: command_info.
MainInfo ==
    /\ pc = "main" /\ cmd = "info"
    /\ \E d \in FetchResults, overflow_checks \in BOOLEAN :
        /\ calls' = Append(calls, Call("get_account_data", "vesting_record", d.ok, 0))
        /\ IF ~d.ok \/ ~d.decodes
           THEN Abort("panic") /\ UNCHANGED <<record, report>>
           ELSE /\ record' = d.rec
                /\ report' = [kind |-> "info",
                              total |-> RecordAmount(d.rec, overflow_checks).v,
                              lines |-> <<d.rec>>]
                /\ IF RecordAmount(d.rec, overflow_checks).status # "ok"
                   THEN Abort("panic")
                   ELSE pc' = "done" /\ exit' = "ok"
    /\ UNCHANGED <<records, param, units_consumed, new_voter_weight_record_data_result,
                   cmd, args, schedules, instructions, signers, tx>>

\* main, ("info-owner", ..) arm: each record is decoded and printed in turn.
MainInfoOwner ==
    /\ pc = "main" /\ cmd = "info-owner"
    /\ \E ok \in BOOLEAN, accounts \in ProgramAccounts :
        /\ calls' = Append(calls, Call("get_program_accounts", "vesting_owner", ok, 0))
        /\ IF ~ok
           THEN Abort("panic") /\ UNCHANGED report
           ELSE /\ report' = [kind |-> "info-owner", total |-> <<>>,
                              lines |-> DecodedPrefix(accounts)]
                /\ IF \E i \in 1..Len(accounts) : ~accounts[i].decodes
                   THEN Abort("panic")
                   ELSE pc' = "done" /\ exit' = "ok"
    /\ UNCHANGED <<records, param, units_consumed, new_voter_weight_record_data_result,
                   cmd, args, schedules, record, instructions, signers, tx>>

\* main, ("list", ..) arm: command_list decodes every record, sorts, then
\* prints the total and the rows.
MainList ==
    /\ pc = "main" /\ cmd = "list"
    /\ \E ok \in BOOLEAN, accounts \in ProgramAccounts, overflow_checks \in BOOLEAN :
        /\ calls' = Append(calls, Call("get_program_accounts", "all", ok, 0))
        /\ records' = IF ok THEN accounts ELSE <<>>
        /\ IF \/ ~ok
              \/ \E i \in 1..Len(accounts) : ~accounts[i].decodes
              \/ \E i \in 1..Len(accounts) :
                    RecordAmount(accounts[i].rec, overflow_checks).status # "ok"
           THEN Abort("panic") /\ UNCHANGED report
           ELSE LET rows == SortByAmount([i \in 1..Len(accounts) |->
                                            Info(accounts[i].rec, overflow_checks)])
                    total_amount == sum_u64([i \in 1..Len(rows) |-> rows[i].amount],
                                            overflow_checks)
                IN  IF total_amount.status # "ok"
                    THEN Abort("panic") /\ UNCHANGED report
                    ELSE /\ report' = [kind |-> "list", total |-> total_amount.v,
                                       lines |-> rows]
                         /\ pc' = "done" /\ exit' = "ok"
    /\ UNCHANGED <<param, units_consumed, new_voter_weight_record_data_result,
                   cmd, args, schedules, record, instructions, signers, tx>>

Next ==
    \/ MainDeposit
    \/ MainWithdraw
    \/ MainChangeOwner
    \/ CommandChangeOwnerWithRealm
    \/ MainCreateVoterWeightRecord
    \/ MainSetVotePercentage
    \/ MainSplit
    \/ CommandSplit
    \/ MainInfo
    \/ MainInfoOwner
    \/ MainList
    \/ GetLatestBlockhash
    \/ SimulateTransaction
    \/ SendTransaction

Spec == Init /\ [][Next]_vars

----------------------------------------------------------------------------
\* Properties of the remote-call sequence (checked under Spec).

\* The positions in the call log of the calls of the given kinds.
CallsOfKind(kinds) == {i \in 1..Len(calls) : calls[i].kind \in kinds}
LastCall == calls[Len(calls)]

\* C7 as stated: a failed remote call is the last remote call of the run,
\* and the process has aborted.
C7_AnyFailureIsFatal ==
    \A i \in 1..Len(calls) :
        ~calls[i].ok => (i = Len(calls) /\ pc = "aborted")

\* C7 as amended: every failed remote call other than change-owner's fetch of
\* the new owner's voter weight record is the last remote call of the run,
\* and the process has aborted.
C7_FailureIsFatalExceptRecordProbe ==
    \A i \in 1..Len(calls) :
        (~calls[i].ok /\ calls[i].target # "new_voter_weight_record")
            => (i = Len(calls) /\ pc = "aborted")

C7_Witness ==
    /\ pc = "aborted"
    /\ Len(calls) >= 3
    /\ LastCall.kind = "simulate_transaction"
    /\ ~LastCall.ok

\* C8: the blockhash is fetched at most once and before any simulation or
\* submission; a submitted transaction was simulated exactly when a
\* compute-unit price was given, after the fetch and before the submission;
\* simulation and signing use the fetched blockhash.
C8_RemoteCallOrder ==
    /\ Cardinality(CallsOfKind({"get_latest_blockhash"})) <= 1
    /\ \A i \in CallsOfKind({"simulate_transaction"}) :
          /\ IsSome(args.price)
          /\ \E j \in CallsOfKind({"get_latest_blockhash"}) :
                j < i /\ calls[j].ok /\ calls[j].blockhash = calls[i].blockhash
    /\ \A i \in CallsOfKind(SendKinds) :
          /\ \E j \in CallsOfKind({"get_latest_blockhash"}) :
                /\ j < i /\ calls[j].ok /\ calls[j].blockhash = calls[i].blockhash
                /\ IsSome(args.price) <=>
                      \E k \in CallsOfKind({"simulate_transaction"}) :
                          /\ j < k /\ k < i /\ calls[k].ok
                          /\ calls[k].blockhash = calls[i].blockhash
          /\ Cardinality(CallsOfKind({"simulate_transaction"}))
                = IF IsSome(args.price) THEN 1 ELSE 0

C8_Witness ==
    /\ pc = "done"
    /\ IsSome(args.price)
    /\ LastCall.kind \in SendKinds
    /\ LastCall.blockhash = MaxBlockhash
    /\ CallsOfKind({"simulate_transaction"}) # {}

\* C9: at most one transaction is submitted in a run, and a remote call that
\* failed is not issued again.
C9_NoRetry ==
    /\ Cardinality(CallsOfKind(SendKinds)) <= 1
    /\ \A i, j \in 1..Len(calls) :
          (i < j /\ ~calls[i].ok)
              => ~(calls[j].kind = calls[i].kind /\ calls[j].target = calls[i].target)

C9_Witness ==
    /\ pc = "done"
    /\ \E i \in 1..Len(calls) : ~calls[i].ok
    /\ LastCall.kind \in SendKinds

\* C10: info, info-owner and list issue only account fetches and end with a
\* printed report; a transaction subcommand that completes has submitted
\* exactly one transaction, as its last remote call, and printed no report.
C10_ReportOrTransaction ==
    /\ cmd \in ReportCommands =>
          /\ \A i \in 1..Len(calls) :
                calls[i].kind \in {"get_account_data", "get_program_accounts"}
          /\ pc = "done" => report.kind = cmd
    /\ cmd \in TxCommands =>
          /\ report = NoReport
          /\ pc = "done" =>
                /\ Cardinality(CallsOfKind(SendKinds)) = 1
                /\ LastCall.kind \in SendKinds
                /\ LastCall.ok

C10_Witness ==
    /\ pc = "done"
    /\ cmd = "create-voter-weight-record"
    /\ Cardinality(CallsOfKind(SendKinds)) = 1

----------------------------------------------------------------------------
\* config.rs: the constants and the neon_elf_param! macro.

\* x * y on limbs, Len(x) + Len(y) limbs long.
RECURSIVE MulLimbs(_, _)
MulLimbs(x, y) ==
    IF y = <<>> THEN Zeros(Len(x))
    ELSE AddLimbs(MulAdd(x, Head(y), 0) \o Zeros(Len(y) - 1),
                  <<0>> \o MulLimbs(x, Tail(y)), 0)

\* x % d on limbs, continuing from the remainder r of the limbs above.
RECURSIVE RemSmall(_, _, _)
RemSmall(x, d, r) ==
    IF x = <<>> THEN r
    ELSE RemSmall(SubSeq(x, 1, Len(x) - 1), d, (r * Limb + x[Len(x)]) % d)

\* u64::pow(base, exp) and u64 `*` in a const item, where an overflow does
\* not compile.
RECURSIVE pow(_, _)
pow(base, exp) ==
    IF exp = 0 THEN U64(1)
    ELSE SubSeq(MulLimbs(pow(base, exp - 1), U64(base)), 1, U64Limbs)

TOKEN_MULT == pow(10, 9)
EXTRA_TOKENS == SubSeq(MulLimbs(U64(290000000), TOKEN_MULT), 1, U64Limbs)
\* MintMaxVoteWeightSource::SUPPLY_FRACTION_BASE / 10
SUPPLY_FRACTION(supply_fraction_base) == DivSmall(supply_fraction_base, 10, 0)

\* SUPPLY_FRACTION_BASE is a u64 declared by the governance crate: its
\* declared value 10^10, and u64 values whose 16-bit quarters are all zeros
\* or all ones.
SupplyFractionBases ==
    {pow(10, 10)}
        \cup {<<a, a, b, b, c, c, d, d>> : a \in {0, Limb - 1}, b \in {0, Limb - 1},
                                            c \in {0, Limb - 1}, d \in {0, Limb - 1}}

\* formatcp!("{:?}", x) for a u64 x, as bytes: the decimal digits, most
\* significant first, in ASCII.
RECURSIVE formatcp(_)
formatcp(x) ==
    LET q == DivSmall(x, 10, 0)
        digit == <<48 + RemSmall(x, 10, 0)>>
    IN  IF q = Zeros(Len(q)) THEN digit ELSE formatcp(q) \o digit

\* let mut array = [0; $value.len()];
ZeroArray_Terminated(value) == Zeros(Len(value) + 1)
ZeroArray(value) == Zeros(Len(value))

\* The three neon_elf_param! invocations, at the entry of the copy loop.
neon_elf_param(identifier, constant) ==
    [identifier |-> identifier, constant |-> constant, value |-> formatcp(constant),
     array |-> ZeroArray(formatcp(constant)), i |-> 0]
ElfParams ==
    {neon_elf_param("PARAM_TOKEN_MULT", TOKEN_MULT),
     neon_elf_param("PARAM_EXTRA_TOKENS", EXTRA_TOKENS)}
        \cup {neon_elf_param("PARAM_SUPPLY_FRACTION", SUPPLY_FRACTION(b)) :
                b \in SupplyFractionBases}

----------------------------------------------------------------------------
\* config.rs: the voter_weight_array! macro and both builds of VOTER_LIST.

\* The base58 alphabet of an address literal.
Base58Alphabet ==
    <<"1", "2", "3", "4", "5", "6", "7", "8", "9", "A", "B", "C", "D", "E", "F", "G",
      "H", "J", "K", "L", "M", "N", "P", "Q", "R", "S", "T", "U", "V", "W", "X", "Y",
      "Z", "a", "b", "c", "d", "e", "f", "g", "h", "i", "j", "k", "m", "n", "o", "p",
      "q", "r", "s", "t", "u", "v", "w", "x", "y", "z">>
Base58Digit(ch) == (CHOOSE d \in 1..Len(Base58Alphabet) : Base58Alphabet[d] = ch) - 1

\* The number an address literal denotes in base 58, on as many limbs as the
\* literal has characters.
RECURSIVE Base58Value(_, _)
Base58Value(s, acc) ==
    IF s = <<>> THEN acc
    ELSE Base58Value(Tail(s), MulAdd(acc, Len(Base58Alphabet), Base58Digit(Head(s))))

\* Every leading "1" of the literal is one leading zero byte of the key.
RECURSIVE LeadingOnes(_)
LeadingOnes(s) ==
    IF s = <<>> \/ Head(s) # Base58Alphabet[1] THEN 0 ELSE 1 + LeadingOnes(Tail(s))

\* The number of bytes a value needs: the place of its highest nonzero limb.
RECURSIVE ByteLength(_)
ByteLength(x) ==
    IF x = <<>> THEN 0
    ELSE IF x[Len(x)] # 0 THEN Len(x) ELSE ByteLength(SubSeq(x, 1, Len(x) - 1))

\* A Pubkey is an array of 32 bytes.
PUBKEY_BYTES == 32

\* pubkey!("..."): the literal decoded from base 58 into the bytes of the
\* key, most significant first; a literal with a character outside the
\* alphabet or one that does not decode to exactly PUBKEY_BYTES bytes does
\* not compile.
pubkey(s) ==
    IF \E k \in 1..Len(s) : \A d \in 1..Len(Base58Alphabet) : Base58Alphabet[d] # s[k]
    THEN [valid |-> FALSE, bytes |-> <<>>]
    ELSE LET value == Base58Value(s, <<>>) \o Zeros(PUBKEY_BYTES)
         IN  [valid |-> LeadingOnes(s) + ByteLength(value) = PUBKEY_BYTES,
              bytes |-> [j \in 1..PUBKEY_BYTES |-> value[PUBKEY_BYTES + 1 - j]]]

\* <tokens> * TOKEN_MULT in a static's initializer, where an overflow of u64
\* does not compile.
Weight_NoMult(tokens) == [valid |-> TRUE, v |-> U64(tokens)]
Weight(tokens) ==
    LET product == MulLimbs(U64(tokens), TOKEN_MULT)
    IN  [valid |-> SubSeq(product, U64Limbs + 1, Len(product)) = Zeros(Len(TOKEN_MULT)),
         v |-> SubSeq(product, 1, U64Limbs)]

\* One line of the macro's argument, ("<address>", <tokens> * TOKEN_MULT):
\* the characters of the address and the left factor of the weight.
Voter(value_pubkey, tokens) == [value_pubkey |-> value_pubkey, tokens |-> tokens]

\* if #[cfg(feature = "mainnet")]
VOTER_LIST_mainnet ==
    <<
     Voter(
      <<"4", "8", "2", "n", "K", "G", "V", "F", "N", "1", "e", "f", "N", "e", "B", "i",
        "C", "A", "k", "P", "r", "W", "A", "T", "E", "S", "j", "9", "S", "x", "n", "6",
        "F", "S", "p", "z", "q", "N", "B", "o", "F", "F", "y", "g">>,
      188762400),
     Voter(
      <<"D", "s", "c", "7", "h", "u", "V", "1", "7", "u", "Z", "Q", "W", "W", "4", "L",
        "G", "7", "K", "2", "o", "3", "T", "E", "i", "G", "K", "X", "T", "Z", "N", "j",
        "x", "k", "A", "R", "z", "2", "x", "z", "F", "u", "1", "d">>,
      60000000),
     Voter(
      <<"2", "6", "k", "i", "P", "i", "m", "z", "A", "i", "o", "o", "c", "L", "x", "Z",
        "A", "m", "C", "v", "k", "P", "q", "g", "L", "t", "Q", "L", "6", "x", "U", "S",
        "C", "M", "w", "k", "R", "v", "C", "S", "F", "c", "6", "j">>,
      145250000),
     Voter(
      <<"2", "F", "W", "w", "p", "J", "H", "i", "t", "W", "E", "k", "9", "n", "q", "t",
        "e", "8", "M", "6", "C", "Q", "S", "z", "C", "U", "x", "o", "g", "U", "d", "U",
        "f", "j", "c", "o", "8", "p", "P", "f", "X", "o", "z", "X">>,
      1000000),
     Voter(
      <<"6", "t", "T", "Y", "u", "z", "u", "Z", "N", "3", "1", "i", "H", "d", "F", "L",
        "Q", "C", "j", "m", "o", "x", "q", "a", "t", "o", "W", "M", "Y", "p", "F", "M",
        "8", "q", "f", "X", "G", "o", "8", "9", "A", "W", "K", "1">>,
      1250000),
     Voter(
      <<"2", "7", "H", "j", "g", "E", "X", "8", "W", "x", "t", "m", "S", "M", "S", "o",
        "g", "V", "L", "Z", "J", "U", "K", "P", "3", "G", "r", "R", "N", "6", "A", "7",
        "z", "m", "g", "b", "7", "J", "Z", "R", "3", "t", "M", "g">>,
      1250000),
     Voter(
      <<"7", "X", "Y", "e", "Z", "m", "j", "z", "j", "e", "f", "A", "p", "S", "C", "s",
        "w", "o", "n", "s", "r", "2", "N", "s", "N", "B", "8", "1", "Y", "m", "H", "s",
        "k", "P", "w", "f", "f", "z", "B", "t", "m", "q", "r", "H">>,
      1250000),
     Voter(
      <<"B", "U", "6", "N", "2", "Z", "6", "8", "J", "P", "X", "L", "f", "2", "4", "7",
        "i", "Y", "n", "H", "U", "T", "U", "v", "1", "B", "7", "p", "8", "A", "F", "W",
        "G", "T", "Y", "k", "c", "j", "f", "e", "S", "w", "Y", "8">>,
      42500000),
     Voter(
      <<"E", "a", "K", "k", "3", "8", "a", "3", "S", "4", "X", "K", "u", "m", "2", "Y",
        "M", "8", "g", "E", "X", "6", "K", "S", "a", "W", "9", "C", "E", "9", "A", "b",
        "b", "U", "a", "W", "5", "x", "Q", "p", "o", "T", "T", "C">>,
      42500000),
     Voter(
      <<"G", "U", "S", "D", "G", "u", "q", "9", "4", "Q", "Y", "p", "j", "3", "Y", "y",
        "s", "Y", "f", "n", "k", "g", "i", "K", "W", "e", "N", "c", "X", "a", "n", "V",
        "2", "L", "g", "M", "r", "q", "F", "n", "s", "L", "B", "s">>,
      53750000),
     Voter(
      <<"D", "E", "s", "k", "k", "1", "z", "j", "5", "w", "8", "h", "v", "f", "M", "f",
        "5", "r", "S", "k", "x", "U", "Z", "L", "c", "Z", "f", "7", "s", "G", "r", "f",
        "5", "G", "4", "9", "C", "7", "w", "N", "Q", "N", "c", "e">>,
      7500000),
     Voter(
      <<"S", "M", "y", "u", "M", "j", "K", "s", "B", "J", "e", "H", "b", "q", "U", "e",
        "r", "k", "p", "d", "u", "W", "1", "T", "f", "w", "E", "r", "d", "B", "L", "r",
        "X", "T", "L", "s", "x", "7", "B", "r", "g", "M", "m">>,
      3750000),
     Voter(
      <<"6", "9", "G", "A", "1", "m", "J", "C", "E", "q", "y", "Y", "x", "j", "5", "7",
        "C", "C", "e", "a", "m", "y", "2", "W", "G", "x", "7", "w", "M", "3", "A", "B",
        "E", "w", "u", "U", "F", "M", "m", "a", "t", "u", "2", "d">>,
      40000000),
     Voter(
      <<"5", "C", "m", "W", "F", "9", "D", "M", "r", "c", "C", "t", "p", "u", "w", "3",
        "g", "1", "r", "n", "x", "9", "z", "Y", "L", "X", "3", "9", "b", "N", "w", "E",
        "X", "7", "d", "S", "E", "e", "a", "K", "F", "P", "P", "f">>,
      40000000),
     Voter(
      <<"H", "F", "T", "X", "n", "5", "o", "T", "G", "o", "9", "d", "g", "S", "J", "f",
        "g", "C", "A", "U", "5", "9", "c", "a", "a", "i", "w", "L", "W", "x", "1", "Z",
        "D", "y", "7", "V", "j", "E", "1", "q", "u", "4", "w">>,
      20000000),
     Voter(
      <<"6", "C", "3", "P", "m", "b", "T", "H", "i", "5", "x", "F", "Z", "M", "W", "7",
        "c", "6", "6", "x", "L", "v", "b", "Q", "c", "i", "V", "d", "d", "b", "E", "F",
        "W", "J", "G", "p", "H", "V", "z", "1", "L", "G", "x", "X">>,
      20000000),
     Voter(
      <<"F", "Z", "X", "Q", "w", "F", "X", "d", "H", "k", "4", "H", "a", "M", "h", "S",
        "K", "c", "z", "d", "t", "3", "C", "4", "U", "s", "e", "J", "p", "J", "i", "B",
        "n", "9", "h", "m", "8", "U", "H", "J", "W", "b", "8", "G">>,
      4000000),
     Voter(
      <<"F", "Y", "e", "K", "m", "w", "T", "p", "J", "G", "q", "Z", "2", "p", "z", "v",
        "S", "z", "z", "D", "A", "m", "w", "i", "p", "T", "2", "J", "2", "A", "D", "3",
        "B", "i", "T", "d", "U", "d", "q", "T", "U", "b", "V", "v">>,
      3000000),
     Voter(
      <<"G", "r", "j", "W", "2", "D", "t", "U", "d", "7", "W", "x", "V", "z", "1", "N",
        "Y", "w", "g", "u", "F", "p", "u", "e", "5", "p", "H", "t", "V", "x", "6", "k",
        "q", "A", "D", "j", "J", "q", "M", "N", "n", "w", "V", "D">>,
      3000000),
     Voter(
      <<"C", "t", "h", "Y", "J", "n", "f", "j", "z", "9", "Y", "E", "L", "m", "Z", "P",
        "Y", "V", "J", "n", "2", "A", "1", "y", "h", "p", "m", "D", "T", "L", "U", "d",
        "W", "K", "u", "h", "Y", "w", "E", "y", "C", "Y", "Z", "z">>,
      2400000),
     Voter(
      <<"F", "5", "h", "T", "R", "H", "4", "L", "u", "6", "f", "R", "k", "n", "6", "S",
        "c", "c", "5", "o", "g", "D", "d", "o", "F", "u", "p", "z", "9", "o", "R", "M",
        "9", "f", "N", "H", "Q", "f", "L", "R", "b", "e", "h", "V">>,
      2200000),
     Voter(
      <<"7", "3", "d", "y", "4", "V", "t", "r", "m", "Y", "o", "Y", "w", "o", "2", "Q",
        "3", "q", "5", "s", "o", "G", "w", "X", "h", "K", "n", "g", "G", "r", "g", "n",
        "q", "v", "L", "5", "G", "E", "r", "y", "C", "5", "L", "k">>,
      2000000),
     Voter(
      <<"5", "c", "s", "6", "v", "p", "X", "K", "u", "K", "K", "N", "b", "z", "p", "D",
        "g", "z", "R", "S", "b", "d", "M", "d", "x", "e", "j", "7", "q", "F", "3", "h",
        "Q", "5", "c", "c", "g", "7", "L", "7", "H", "V", "4", "n">>,
      1440000),
     Voter(
      <<"B", "W", "p", "Z", "4", "L", "w", "W", "g", "3", "Z", "V", "2", "f", "g", "Q",
        "W", "6", "h", "x", "P", "1", "S", "m", "M", "M", "h", "w", "Q", "k", "a", "K",
        "q", "t", "f", "q", "5", "x", "c", "x", "4", "z", "k", "d">>,
      1400000),
     Voter(
      <<"G", "t", "H", "2", "j", "m", "B", "p", "p", "V", "8", "V", "A", "t", "b", "E",
        "K", "A", "n", "g", "G", "n", "n", "6", "h", "9", "e", "s", "v", "9", "M", "R",
        "t", "g", "q", "K", "A", "R", "F", "D", "F", "r", "b", "f">>,
      1200000),
     Voter(
      <<"A", "S", "L", "W", "z", "y", "V", "K", "s", "m", "Y", "W", "H", "Y", "8", "g",
        "Y", "R", "V", "x", "J", "t", "B", "Y", "d", "3", "U", "Y", "k", "g", "1", "9",
        "j", "e", "o", "8", "W", "r", "h", "p", "b", "3", "r", "f">>,
      1000000),
     Voter(
      <<"A", "X", "V", "1", "s", "K", "b", "8", "6", "s", "1", "P", "f", "Y", "S", "J",
        "7", "8", "Y", "M", "K", "w", "q", "4", "e", "j", "h", "j", "K", "t", "v", "Y",
        "Z", "h", "9", "R", "h", "y", "r", "E", "y", "u", "B", "6">>,
      1000000),
     Voter(
      <<"A", "U", "z", "M", "E", "o", "e", "K", "i", "L", "Q", "W", "W", "G", "c", "Z",
        "3", "8", "M", "6", "n", "T", "M", "K", "W", "r", "8", "S", "p", "e", "Y", "V",
        "i", "H", "S", "Q", "t", "m", "9", "L", "f", "H", "u", "e">>,
      1000000),
     Voter(
      <<"E", "Y", "Y", "P", "c", "C", "e", "w", "a", "Y", "K", "h", "E", "t", "A", "7",
        "N", "y", "m", "W", "8", "3", "E", "n", "8", "i", "t", "7", "P", "m", "a", "x",
        "D", "i", "D", "q", "V", "E", "a", "D", "P", "M", "e", "a">>,
      1000000),
     Voter(
      <<"6", "U", "q", "h", "9", "X", "M", "v", "x", "3", "L", "4", "g", "8", "2", "W",
        "1", "q", "o", "d", "u", "Z", "U", "t", "3", "D", "e", "G", "1", "9", "P", "P",
        "r", "6", "F", "M", "3", "g", "j", "g", "w", "Y", "A", "g">>,
      1000000),
     Voter(
      <<"9", "R", "K", "L", "5", "q", "e", "s", "j", "T", "z", "6", "Y", "N", "R", "R",
        "o", "e", "h", "v", "u", "6", "q", "z", "9", "H", "C", "V", "p", "3", "T", "o",
        "V", "5", "w", "4", "D", "z", "5", "a", "q", "8", "X", "v">>,
      1000000),
     Voter(
      <<"G", "C", "t", "j", "N", "A", "9", "5", "8", "N", "b", "1", "w", "3", "n", "o",
        "e", "G", "H", "m", "5", "E", "Z", "N", "h", "3", "p", "p", "6", "X", "y", "L",
        "j", "L", "B", "7", "y", "r", "P", "1", "w", "W", "R", "H">>,
      1000000),
     Voter(
      <<"H", "9", "L", "T", "E", "p", "F", "C", "i", "M", "8", "j", "x", "a", "E", "Y",
        "r", "F", "y", "q", "h", "L", "a", "M", "E", "t", "j", "k", "N", "T", "M", "b",
        "p", "M", "i", "m", "c", "t", "H", "o", "e", "Q", "D", "o">>,
      857600),
     Voter(
      <<"4", "d", "D", "g", "P", "d", "d", "s", "n", "J", "H", "z", "n", "o", "E", "o",
        "B", "x", "p", "u", "k", "Y", "T", "6", "Y", "m", "F", "5", "J", "X", "Z", "k",
        "t", "5", "t", "K", "V", "7", "F", "S", "x", "h", "f", "s">>,
      840000),
     Voter(
      <<"9", "k", "b", "w", "h", "p", "R", "L", "d", "X", "r", "s", "J", "g", "M", "k",
        "y", "E", "m", "t", "q", "H", "E", "n", "1", "2", "g", "N", "L", "4", "p", "f",
        "W", "3", "W", "m", "X", "6", "6", "g", "A", "q", "a", "T">>,
      640000),
     Voter(
      <<"A", "N", "7", "z", "k", "f", "E", "7", "M", "W", "V", "c", "S", "E", "P", "H",
        "q", "G", "F", "r", "M", "N", "K", "r", "K", "g", "U", "n", "t", "x", "p", "d",
        "g", "V", "B", "A", "H", "6", "Y", "u", "T", "h", "C", "p">>,
      600000),
     Voter(
      <<"G", "q", "u", "q", "Z", "s", "6", "x", "4", "g", "Q", "g", "p", "q", "y", "R",
        "n", "e", "n", "g", "H", "H", "W", "C", "K", "o", "w", "r", "K", "W", "w", "A",
        "R", "2", "R", "h", "M", "m", "v", "d", "w", "B", "P", "V">>,
      600000),
     Voter(
      <<"Q", "u", "L", "W", "F", "D", "s", "Y", "s", "r", "n", "j", "v", "g", "k", "T",
        "4", "X", "K", "Y", "n", "5", "p", "2", "t", "k", "r", "4", "h", "6", "U", "U",
        "B", "B", "2", "Q", "8", "Q", "f", "Z", "u", "9", "E">>,
      600000),
     Voter(
      <<"G", "w", "F", "6", "s", "h", "T", "6", "a", "h", "X", "h", "H", "r", "w", "R",
        "g", "9", "i", "f", "3", "Y", "T", "f", "L", "J", "f", "w", "X", "N", "X", "2",
        "Z", "L", "V", "F", "G", "f", "q", "e", "2", "j", "v", "H">>,
      600000),
     Voter(
      <<"F", "r", "P", "a", "7", "K", "M", "2", "5", "m", "5", "f", "q", "b", "x", "W",
        "7", "V", "V", "H", "B", "o", "v", "U", "Z", "d", "i", "7", "h", "p", "3", "H",
        "T", "e", "m", "w", "J", "h", "H", "a", "4", "4", "j", "g">>,
      500000),
     Voter(
      <<"2", "A", "u", "v", "z", "J", "8", "j", "K", "9", "R", "r", "Y", "c", "a", "n",
        "K", "x", "L", "o", "a", "m", "U", "i", "f", "f", "N", "P", "7", "V", "m", "6",
        "J", "d", "Y", "x", "W", "C", "q", "7", "4", "W", "F", "j">>,
      500000),
     Voter(
      <<"2", "j", "U", "V", "A", "f", "m", "h", "w", "N", "3", "z", "n", "y", "K", "Z",
        "9", "5", "R", "Z", "L", "z", "G", "i", "2", "x", "7", "g", "h", "X", "g", "j",
        "3", "p", "Z", "y", "4", "A", "i", "j", "1", "6", "3", "t">>,
      480000),
     Voter(
      <<"B", "A", "H", "b", "i", "c", "z", "9", "b", "M", "b", "2", "q", "E", "j", "P",
        "g", "H", "g", "U", "3", "2", "M", "7", "1", "1", "Q", "C", "R", "V", "R", "K",
        "4", "x", "S", "D", "K", "B", "c", "E", "T", "s", "9", "d">>,
      400000),
     Voter(
      <<"6", "c", "Y", "P", "A", "V", "i", "w", "m", "7", "X", "B", "D", "H", "6", "R",
        "K", "r", "R", "e", "M", "8", "Q", "k", "S", "i", "D", "r", "W", "b", "x", "U",
        "z", "D", "E", "a", "2", "s", "K", "m", "N", "G", "L", "1">>,
      400000),
     Voter(
      <<"D", "X", "J", "g", "R", "v", "r", "k", "a", "f", "S", "z", "R", "L", "7", "k",
        "V", "q", "8", "f", "2", "3", "N", "b", "X", "L", "H", "c", "B", "E", "Q", "K",
        "e", "9", "W", "9", "z", "Z", "J", "v", "A", "U", "E", "e">>,
      400000),
     Voter(
      <<"3", "o", "v", "n", "D", "C", "6", "M", "d", "3", "F", "2", "i", "8", "R", "T",
        "3", "M", "v", "Z", "c", "S", "7", "Q", "e", "k", "m", "U", "q", "8", "j", "s",
        "o", "1", "e", "3", "k", "e", "8", "M", "m", "Y", "3", "a">>,
      400000),
     Voter(
      <<"C", "c", "g", "x", "j", "N", "d", "L", "R", "x", "8", "3", "W", "r", "g", "2",
        "q", "h", "b", "g", "v", "C", "P", "C", "k", "8", "M", "h", "p", "B", "r", "e",
        "v", "g", "c", "o", "f", "1", "5", "B", "Z", "D", "m", "B">>,
      400000),
     Voter(
      <<"6", "V", "z", "j", "k", "u", "i", "y", "M", "j", "i", "p", "t", "4", "e", "3",
        "q", "w", "8", "7", "m", "H", "6", "s", "H", "V", "e", "N", "8", "u", "x", "s",
        "Y", "8", "q", "K", "8", "P", "x", "k", "Z", "D", "Y", "K">>,
      400000),
     Voter(
      <<"2", "n", "9", "R", "f", "5", "K", "J", "D", "V", "R", "4", "G", "K", "p", "W",
        "4", "J", "H", "G", "E", "a", "K", "L", "R", "w", "3", "z", "8", "9", "u", "u",
        "W", "f", "2", "7", "d", "L", "b", "Q", "q", "P", "W", "Z">>,
      400000),
     Voter(
      <<"8", "F", "o", "g", "g", "1", "k", "w", "S", "Y", "z", "y", "Z", "C", "R", "B",
        "b", "n", "i", "V", "W", "e", "p", "r", "P", "w", "g", "8", "s", "8", "y", "S",
        "h", "t", "X", "K", "U", "w", "y", "j", "c", "z", "p", "A">>,
      300000),
     Voter(
      <<"E", "c", "B", "V", "A", "9", "4", "V", "Y", "U", "r", "6", "m", "A", "Z", "q",
        "x", "G", "d", "B", "4", "Q", "N", "7", "8", "7", "H", "5", "a", "3", "N", "3",
        "k", "d", "8", "t", "b", "4", "m", "C", "y", "S", "s">>,
      300000),
     Voter(
      <<"G", "8", "w", "h", "4", "9", "c", "S", "s", "B", "Q", "G", "i", "o", "J", "K",
        "B", "5", "F", "6", "k", "9", "a", "X", "E", "k", "Z", "M", "t", "Y", "7", "P",
        "j", "s", "1", "a", "Z", "i", "S", "R", "h", "q", "M", "Z">>,
      300000),
     Voter(
      <<"F", "w", "9", "t", "5", "q", "Z", "U", "7", "u", "C", "d", "Q", "h", "R", "q",
        "c", "X", "a", "y", "P", "b", "X", "C", "N", "N", "w", "E", "s", "R", "1", "r",
        "y", "4", "S", "W", "M", "B", "N", "D", "t", "V", "M", "B">>,
      240000),
     Voter(
      <<"2", "Y", "f", "2", "e", "K", "b", "a", "A", "H", "x", "F", "C", "N", "U", "G",
        "P", "C", "q", "a", "q", "s", "X", "z", "q", "x", "M", "R", "b", "1", "4", "C",
        "9", "J", "S", "P", "T", "K", "D", "3", "w", "D", "M", "F">>,
      200000),
     Voter(
      <<"F", "K", "7", "K", "w", "7", "W", "n", "J", "X", "j", "t", "2", "n", "B", "U",
        "w", "F", "5", "A", "H", "1", "o", "m", "r", "B", "Y", "s", "a", "x", "X", "W",
        "t", "9", "P", "X", "Q", "S", "C", "D", "P", "f", "u", "T">>,
      200000),
     Voter(
      <<"D", "n", "u", "8", "p", "p", "4", "t", "t", "S", "x", "r", "S", "4", "w", "e",
        "Q", "3", "d", "r", "G", "5", "c", "8", "7", "3", "P", "9", "7", "N", "o", "G",
        "o", "S", "n", "k", "v", "Z", "Y", "8", "A", "A", "k", "B">>,
      200000),
     Voter(
      <<"6", "W", "Y", "t", "g", "Z", "j", "u", "H", "D", "1", "h", "P", "D", "i", "N",
        "t", "D", "D", "U", "7", "Q", "Q", "p", "W", "w", "5", "7", "6", "b", "x", "o",
        "S", "b", "Q", "y", "d", "7", "W", "Q", "o", "o", "b", "q">>,
      200000),
     Voter(
      <<"3", "K", "r", "9", "9", "J", "q", "a", "w", "1", "V", "R", "H", "e", "c", "K",
        "H", "h", "v", "b", "7", "B", "x", "N", "L", "7", "Z", "g", "y", "v", "a", "f",
        "q", "A", "5", "t", "T", "Z", "q", "U", "A", "J", "g", "K">>,
      200000),
     Voter(
      <<"H", "a", "J", "f", "z", "h", "g", "3", "R", "d", "B", "9", "v", "u", "e", "G",
        "2", "q", "m", "V", "W", "6", "a", "j", "j", "G", "S", "w", "3", "q", "3", "y",
        "V", "d", "3", "X", "F", "5", "M", "n", "E", "L", "C", "z">>,
      200000),
     Voter(
      <<"D", "5", "n", "t", "o", "e", "2", "z", "A", "7", "b", "2", "G", "n", "j", "H",
        "X", "e", "L", "y", "t", "k", "W", "1", "z", "o", "a", "a", "S", "x", "i", "e",
        "S", "i", "b", "H", "7", "N", "h", "Q", "v", "B", "Q", "7">>,
      200000),
     Voter(
      <<"B", "g", "t", "C", "P", "r", "q", "w", "f", "t", "g", "R", "y", "7", "y", "q",
        "A", "Q", "S", "a", "j", "d", "3", "w", "o", "Q", "K", "2", "4", "E", "3", "R",
        "P", "f", "k", "f", "b", "t", "y", "B", "5", "7", "k", "m">>,
      200000),
     Voter(
      <<"D", "9", "b", "p", "P", "f", "F", "u", "2", "x", "P", "Z", "J", "d", "K", "D",
        "K", "V", "8", "i", "J", "L", "y", "h", "h", "K", "Z", "u", "a", "u", "c", "C",
        "E", "c", "s", "R", "7", "c", "V", "N", "A", "Y", "j", "P">>,
      200000),
     Voter(
      <<"8", "o", "G", "y", "9", "t", "u", "6", "K", "W", "c", "F", "a", "8", "S", "H",
        "o", "B", "E", "H", "S", "m", "M", "L", "m", "D", "d", "z", "E", "P", "w", "3",
        "P", "Z", "x", "L", "E", "u", "y", "b", "p", "K", "J", "9">>,
      200000),
     Voter(
      <<"D", "S", "i", "a", "Q", "P", "p", "L", "w", "Y", "7", "3", "t", "p", "c", "K",
        "H", "i", "6", "5", "M", "x", "b", "T", "m", "B", "i", "f", "5", "6", "q", "H",
        "2", "m", "Y", "k", "d", "t", "U", "E", "i", "a", "1", "i">>,
      200000),
     Voter(
      <<"9", "7", "v", "x", "i", "q", "E", "J", "Q", "r", "p", "J", "Z", "e", "z", "7",
        "h", "G", "c", "C", "X", "N", "q", "f", "Z", "8", "k", "9", "q", "W", "Q", "T",
        "M", "b", "v", "t", "D", "t", "g", "v", "8", "P", "L", "8">>,
      200000),
     Voter(
      <<"5", "j", "r", "k", "c", "3", "R", "v", "j", "E", "9", "N", "Y", "w", "Y", "t",
        "s", "1", "T", "v", "N", "k", "q", "j", "N", "e", "S", "j", "p", "Q", "L", "F",
        "B", "7", "S", "o", "h", "q", "6", "z", "x", "W", "w", "p">>,
      200000),
     Voter(
      <<"E", "e", "6", "w", "u", "z", "B", "u", "z", "B", "Q", "1", "S", "c", "L", "v",
        "A", "S", "Q", "u", "Y", "y", "g", "b", "R", "B", "E", "W", "U", "g", "q", "3",
        "o", "T", "Q", "J", "y", "W", "j", "j", "G", "h", "J", "F">>,
      200000),
     Voter(
      <<"5", "e", "u", "P", "x", "o", "n", "Y", "k", "r", "w", "y", "J", "K", "m", "R",
        "Q", "e", "1", "g", "j", "s", "A", "D", "b", "8", "R", "q", "c", "c", "o", "s",
        "b", "T", "h", "Z", "3", "y", "V", "S", "f", "2", "x", "8">>,
      160000),
     Voter(
      <<"B", "e", "2", "E", "c", "9", "R", "E", "a", "F", "Y", "R", "c", "u", "H", "h",
        "t", "L", "N", "9", "h", "f", "s", "n", "i", "F", "W", "e", "1", "9", "L", "E",
        "m", "y", "3", "x", "F", "n", "k", "r", "S", "m", "v", "5">>,
      160000),
     Voter(
      <<"B", "5", "C", "7", "P", "4", "F", "6", "N", "y", "S", "R", "7", "B", "J", "F",
        "W", "T", "B", "U", "d", "r", "9", "Z", "1", "Q", "D", "i", "v", "F", "E", "j",
        "d", "8", "o", "Q", "d", "m", "y", "d", "J", "i", "N", "u">>,
      100000),
     Voter(
      <<"D", "Y", "4", "v", "6", "1", "X", "Y", "V", "7", "T", "m", "f", "9", "Y", "V",
        "W", "k", "x", "v", "F", "L", "U", "n", "3", "V", "3", "r", "c", "c", "u", "k",
        "z", "6", "J", "e", "w", "q", "7", "C", "g", "G", "C", "N">>,
      100000),
     Voter(
      <<"C", "g", "W", "T", "n", "E", "r", "g", "d", "N", "A", "z", "K", "o", "e", "R",
        "S", "Q", "1", "N", "H", "c", "W", "2", "B", "5", "i", "j", "8", "y", "f", "Z",
        "k", "q", "u", "V", "N", "q", "V", "3", "A", "B", "y", "W">>,
      80000),
     Voter(
      <<"A", "7", "u", "c", "5", "d", "B", "w", "a", "z", "4", "B", "j", "F", "H", "D",
        "m", "7", "5", "8", "2", "M", "H", "v", "i", "S", "Q", "2", "R", "q", "5", "8",
        "t", "c", "U", "V", "2", "P", "A", "5", "n", "2", "X", "o">>,
      40000)
    >>

\* else
VOTER_LIST_default ==
    <<
     Voter(
      <<"4", "8", "2", "n", "K", "G", "V", "F", "N", "1", "e", "f", "N", "e", "B", "i",
        "C", "A", "k", "P", "r", "W", "A", "T", "E", "S", "j", "9", "S", "x", "n", "6",
        "F", "S", "p", "z", "q", "N", "B", "o", "F", "F", "y", "g">>,
      188762400),
     Voter(
      <<"D", "s", "c", "7", "h", "u", "V", "1", "7", "u", "Z", "Q", "W", "W", "4", "L",
        "G", "7", "K", "2", "o", "3", "T", "E", "i", "G", "K", "X", "T", "Z", "N", "j",
        "x", "k", "A", "R", "z", "2", "x", "z", "F", "u", "1", "d">>,
      60000000),
     Voter(
      <<"2", "6", "k", "i", "P", "i", "m", "z", "A", "i", "o", "o", "c", "L", "x", "Z",
        "A", "m", "C", "v", "k", "P", "q", "g", "L", "t", "Q", "L", "6", "x", "U", "S",
        "C", "M", "w", "k", "R", "v", "C", "S", "F", "c", "6", "j">>,
      149000000),
     Voter(
      <<"2", "F", "W", "w", "p", "J", "H", "i", "t", "W", "E", "k", "9", "n", "q", "t",
        "e", "8", "M", "6", "C", "Q", "S", "z", "C", "U", "x", "o", "g", "U", "d", "U",
        "f", "j", "c", "o", "8", "p", "P", "f", "X", "o", "z", "X">>,
      1000000),
     Voter(
      <<"G", "U", "S", "D", "G", "u", "q", "9", "4", "Q", "Y", "p", "j", "3", "Y", "y",
        "s", "Y", "f", "n", "k", "g", "i", "K", "W", "e", "N", "c", "X", "a", "n", "V",
        "2", "L", "g", "M", "r", "q", "F", "n", "s", "L", "B", "s">>,
      150000000),
     Voter(
      <<"k", "e", "y", "B", "c", "Y", "t", "D", "2", "h", "6", "P", "T", "W", "v", "x",
        "8", "E", "w", "w", "r", "a", "k", "2", "w", "7", "2", "h", "o", "M", "5", "V",
        "d", "B", "N", "b", "w", "N", "q", "w", "m", "u", "X">>,
      40000000),
     Voter(
      <<"k", "e", "y", "N", "B", "B", "c", "j", "c", "q", "b", "T", "G", "i", "E", "y",
        "i", "h", "c", "S", "6", "F", "o", "d", "Y", "h", "6", "8", "s", "P", "k", "W",
        "s", "6", "R", "G", "5", "y", "f", "L", "D", "C", "N">>,
      40000000),
     Voter(
      <<"H", "F", "T", "X", "n", "5", "o", "T", "G", "o", "9", "d", "g", "S", "J", "f",
        "g", "C", "A", "U", "5", "9", "c", "a", "a", "i", "w", "L", "W", "x", "1", "Z",
        "D", "y", "7", "V", "j", "E", "1", "q", "u", "4", "w">>,
      20000000),
     Voter(
      <<"t", "s", "t", "1", "8", "q", "x", "7", "K", "d", "3", "E", "L", "A", "s", "M",
        "3", "Q", "x", "n", "4", "n", "K", "N", "R", "Z", "e", "g", "2", "6", "Z", "i",
        "7", "G", "K", "G", "H", "a", "e", "W", "F", "m", "6">>,
      20000000),
     Voter(
      <<"t", "s", "t", "6", "R", "G", "7", "t", "1", "J", "8", "X", "N", "3", "N", "Y",
        "L", "N", "H", "k", "A", "3", "a", "c", "f", "Z", "c", "j", "u", "r", "h", "u",
        "r", "G", "7", "K", "k", "3", "g", "A", "w", "9", "k">>,
      4000000),
     Voter(
      <<"t", "s", "t", "6", "Y", "y", "N", "d", "i", "4", "n", "G", "h", "H", "A", "e",
        "w", "2", "N", "9", "G", "K", "L", "f", "V", "E", "2", "g", "p", "9", "9", "y",
        "4", "y", "4", "X", "N", "A", "o", "5", "2", "q", "s">>,
      3000000),
     Voter(
      <<"t", "s", "t", "C", "U", "G", "z", "L", "U", "Y", "c", "u", "u", "D", "V", "G",
        "g", "A", "z", "w", "i", "3", "3", "4", "f", "D", "h", "D", "S", "2", "a", "s",
        "q", "H", "q", "c", "u", "r", "D", "q", "h", "r", "S">>,
      3000000),
     Voter(
      <<"t", "s", "t", "D", "4", "u", "L", "c", "8", "N", "E", "7", "J", "Y", "X", "g",
        "K", "d", "a", "m", "x", "8", "f", "3", "J", "p", "C", "3", "u", "s", "D", "L",
        "c", "b", "i", "y", "D", "p", "d", "b", "r", "x", "J">>,
      2400000),
     Voter(
      <<"t", "s", "t", "K", "Y", "6", "D", "q", "H", "9", "u", "7", "u", "w", "V", "w",
        "2", "q", "a", "3", "p", "g", "f", "J", "N", "o", "K", "W", "m", "1", "2", "e",
        "8", "2", "J", "R", "u", "c", "c", "B", "w", "v", "V">>,
      2200000),
     Voter(
      <<"t", "s", "t", "n", "G", "P", "J", "y", "i", "Q", "M", "U", "J", "q", "Z", "x",
        "q", "v", "K", "4", "8", "5", "7", "x", "e", "W", "p", "7", "Z", "r", "c", "z",
        "q", "Z", "w", "s", "f", "4", "S", "B", "7", "R", "8">>,
      2000000),
     Voter(
      <<"t", "s", "t", "P", "S", "u", "5", "s", "H", "G", "r", "Z", "Q", "r", "a", "Z",
        "3", "E", "f", "8", "M", "F", "m", "e", "S", "f", "K", "W", "x", "Q", "S", "w",
        "Q", "Q", "v", "i", "v", "7", "c", "Y", "W", "w", "b">>,
      1440000),
     Voter(
      <<"1", "1", "1", "1", "1", "1", "1", "1", "1", "1", "1", "1", "1", "1", "1", "1",
        "1", "1", "1", "1", "1", "1", "1", "1", "1", "1", "1", "1", "1", "1", "1", "1">>,
      23197600)
    >>

\* cfg_if! selects the list by the build's features.
voter_weight_array(features) ==
    [identifier |-> "VOTER_LIST", constant |-> <<>>,
     value |-> IF "mainnet" \in features THEN VOTER_LIST_mainnet ELSE VOTER_LIST_default,
     array |-> <<>>, i |-> 0]
Features == SUBSET {"mainnet"}

\* The evaluation of one static's initializer: of a parameter, or of
\* VOTER_LIST in a build with or without the feature "mainnet".
InitConfig ==
    /\ \/ /\ pc = "neon_elf_param"
          /\ cmd = "neon_elf_param"
          /\ args = <<>>
          /\ param \in ElfParams
       \/ /\ pc = "voter_weight_array"
          /\ cmd = "voter_weight_array"
          /\ \E features \in Features :
                /\ args = [features |-> features]
                /\ param = voter_weight_array(features)
    /\ schedules = <<>>
    /\ record = NoRecord
    /\ new_voter_weight_record_data_result = "none"
    /\ units_consumed = <<>>
    /\ instructions = <<>>
    /\ signers = {}
    /\ tx = NoTx
    /\ calls = <<>>
    /\ records = <<>>
    /\ report = NoReport
    /\ exit = "running"

\* while i < $value.len() { array[i] = bytes[i]; i += 1; }
CopyByte ==
    /\ pc = "neon_elf_param"
    /\ param.i < Len(param.value)
    /\ param' = [param EXCEPT !.array[param.i + 1] = param.value[param.i + 1],
                              !.i = param.i + 1]
    /\ UNCHANGED <<pc, cmd, args, schedules, record, new_voter_weight_record_data_result,
                   records, units_consumed, instructions, signers, tx, calls, report, exit>>

\* The loop ends and the array becomes the value of the static.
DefineStatic ==
    /\ pc = "neon_elf_param"
    /\ ~(param.i < Len(param.value))
    /\ pc' = "static"
    /\ UNCHANGED <<records, param, cmd, args, schedules, record,
                   new_voter_weight_record_data_result, units_consumed, instructions,
                   signers, tx, calls, report, exit>>

\* $((::solana_program::pubkey!($value_pubkey),$value_weight),)*
\* the next element of the array, when its key and its weight compile.
VoterWeightElement ==
    /\ pc = "voter_weight_array"
    /\ param.i < Len(param.value)
    /\ LET voter == param.value[param.i + 1]
           key == pubkey(voter.value_pubkey)
           weight == Weight(voter.tokens)
       IN  /\ key.valid
           /\ weight.valid
           /\ param' = [param EXCEPT !.array = Append(@, <<key.bytes, weight.v>>),
                                     !.i = @ + 1]
    /\ UNCHANGED <<pc, cmd, args, schedules, record, new_voter_weight_record_data_result,
                   records, units_consumed, instructions, signers, tx, calls, report, exit>>

\* The array of all the elements becomes the value of VOTER_LIST.
DefineVoterList ==
    /\ pc = "voter_weight_array"
    /\ ~(param.i < Len(param.value))
    /\ pc' = "static"
    /\ UNCHANGED <<records, param, cmd, args, schedules, record,
                   new_voter_weight_record_data_result, units_consumed, instructions,
                   signers, tx, calls, report, exit>>

NextConfig == CopyByte \/ DefineStatic \/ VoterWeightElement \/ DefineVoterList

SpecConfig == InitConfig /\ [][NextConfig]_vars

----------------------------------------------------------------------------
\* Properties of parse_schedules inside a client run (checked under Spec),
\* and of the linear branch's argument check (checked under SpecSched).

\* main has called parse_schedules: split calls it first, deposit after it
\* has read --confirm.
ParseSchedulesCalled ==
    /\ pc # "main"
    /\ \/ cmd = "split"
       \/ cmd = "deposit" /\ IsSome(ConfirmValue(args))

\* --release-times given with a different number of entries than --amounts.
CountMismatch ==
    /\ args.freq.tag = "missing"
    /\ IsSome(args.times)
    /\ Len(args.amounts) # Len(args.times.v)

\* C11: with explicit release times whose count differs from the number of
\* amounts, parse_schedules exits with status 1: no schedule is returned, no
\* transaction is built and no remote call is issued.
C11_CountMismatchExits ==
    (ParseSchedulesCalled /\ CountMismatch) =>
        /\ pc = "aborted"
        /\ exit = "exit1"
        /\ schedules = <<>>
        /\ instructions = <<>>
        /\ tx = NoTx
        /\ calls = <<>>

C11_Witness ==
    /\ ParseSchedulesCalled
    /\ CountMismatch
    /\ cmd = "deposit"
    /\ Len(args.amounts) > Len(args.times.v)

\* C12: when --release-frequency is given together with more than one
\* amount, parse_schedules aborts and returns no schedule.
C12_LinearNeedsOneAmount ==
    (pc # "parse_schedules" /\ args.freq.tag # "missing" /\ Len(args.amounts) > 1) =>
        /\ pc = "aborted"
        /\ exit = "panic"
        /\ schedules = <<>>

C12_Witness ==
    /\ pc = "aborted"
    /\ IsSome(args.freq) /\ args.freq.v >= 1
    /\ IsSome(args.start) /\ IsSome(args.end) /\ args.end.v > args.start.v
    /\ Len(args.amounts) > 1
    /\ args.amounts[1] >= 1

----------------------------------------------------------------------------
\* Properties of the submission and of create_transaction (checked under
\* Spec).

\* --confirm as the user gave it: true when omitted or given as true.
ConfirmAsked == args.confirm.tag = "missing" \/ (IsSome(args.confirm) /\ args.confirm.v)

\* C14: only deposit waits for confirmation, and it does so exactly when
\* --confirm is true, which is the value of an omitted --confirm; withdraw,
\* change-owner, create-voter-weight-record, set-vote-percentage and split
\* submit without waiting.
C14_OnlyDepositConfirms ==
    \A i \in CallsOfKind(SendKinds) :
        (calls[i].kind = "send_and_confirm_transaction")
            <=> (cmd = "deposit" /\ ConfirmAsked)

C14_Witness ==
    /\ cmd = "deposit"
    /\ args.confirm.tag = "missing"
    /\ pc = "done"
    /\ LastCall.kind = "send_and_confirm_transaction"

\* create_transaction has returned a transaction to its caller.
TransactionReturned == cmd \in TxCommands /\ pc \in {"send_transaction", "done"}

\* C15: with a compute-unit price the transaction's instruction list is
\* set_compute_unit_limit, set_compute_unit_price(price), then the caller's
\* instructions in their order; without a price it is exactly the caller's
\* instructions and no simulation is made.
C15_BudgetInstructionsFirst ==
    /\ TransactionReturned =>
          IF IsSome(args.price)
          THEN /\ Len(tx.instrs) = Len(instructions) + 2
               /\ tx.instrs[1].op = "set_compute_unit_limit"
               /\ tx.instrs[2] = set_compute_unit_price(args.price.v)
               /\ SubSeq(tx.instrs, 3, Len(tx.instrs)) = instructions
          ELSE tx.instrs = instructions
    /\ ~IsSome(args.price) => CallsOfKind({"simulate_transaction"}) = {}

C15_Witness ==
    /\ TransactionReturned
    /\ IsSome(args.price)
    /\ Len(instructions) = 3
    /\ Len(tx.instrs) = 5

C15_WitnessNoPrice ==
    /\ TransactionReturned
    /\ ~IsSome(args.price)
    /\ Len(tx.instrs) = 2

\* C17: the returned transaction has the payer as fee payer and carries the
\* payer's signature and every signer's; the payer signs separately
\* (try_partial_sign) exactly when its key is not among the signing
\* keypairs; after a signing failure no transaction is returned or sent.
C17_PayerAndSignersSign ==
    /\ TransactionReturned =>
          /\ tx.payer = PayerOf(cmd, args)
          /\ tx.payer \in tx.signed_by
          /\ signers \subseteq tx.signed_by
          /\ tx.partial_signed <=> (tx.payer \notin signers)
    /\ (cmd \in TxCommands /\ tx.signed_by = {}) =>
          /\ pc \notin {"send_transaction", "done"}
          /\ CallsOfKind(SendKinds) = {}

C17_Witness ==
    /\ TransactionReturned
    /\ tx.partial_signed
    /\ tx.payer = "payer_keypair"
    /\ Cardinality(tx.signed_by) = 3

C17_WitnessSignFailure ==
    /\ pc = "aborted"
    /\ tx.instrs # <<>>
    /\ tx.signed_by = {}

----------------------------------------------------------------------------
\* Properties of the instructions each subcommand builds (checked under
\* Spec).

\* The subcommand has handed its instructions to create_transaction.
InstructionsBuilt == cmd \in TxCommands /\ instructions # <<>>
LastInstruction == instructions[Len(instructions)]
PlainOp(c) ==
    CASE c = "withdraw" -> "withdraw"
      [] c = "change-owner" -> "change_owner"
      [] c = "split" -> "split"
      [] c = "deposit" -> "deposit"
      [] OTHER -> "none"
WithRealmOp(c) ==
    CASE c = "withdraw" -> "withdraw_with_realm"
      [] c = "change-owner" -> "change_owner_with_realm"
      [] c = "split" -> "split_with_realm"
      [] c = "deposit" -> "deposit_with_realm"
      [] OTHER -> "none"

\* C18: withdraw, change-owner and split use the *_with_realm instruction
\* exactly when the fetched vesting record has a realm, built with that
\* record's realm and mint; otherwise they use the plain instruction.
C18_RealmVariantFollowsRecord ==
    (InstructionsBuilt /\ cmd \in {"withdraw", "change-owner", "split"}) =>
        IF IsSome(record.realm)
        THEN /\ LastInstruction.op = WithRealmOp(cmd)
             /\ LastInstruction.realm = record.realm.v
             /\ LastInstruction.mint = record.mint
        ELSE LastInstruction.op = PlainOp(cmd)

C18_Witness ==
    /\ InstructionsBuilt
    /\ cmd = "withdraw"
    /\ IsSome(record.realm)
    /\ LastInstruction.op = "withdraw_with_realm"
    /\ pc = "done"

C18_WitnessPlain ==
    /\ InstructionsBuilt
    /\ cmd = "split"
    /\ ~IsSome(record.realm)
    /\ LastInstruction.op = "split"

\* C20: deposit and split build three instructions in this order: create a
\* fresh token account, initialize it with the vesting address derived from
\* that same account as its authority, then the deposit or split instruction
\* naming that same account; the fresh account's keypair is a signer; the
\* account is funded by the source token owner in deposit and by the payer
\* in split.
C20_FreshTokenAccount ==
    (InstructionsBuilt /\ cmd \in {"deposit", "split"}) =>
        LET fresh == instructions[1].account
        IN  /\ Len(instructions) = 3
            /\ instructions[1].op = "create_account"
            /\ instructions[1].funder =
                  (IF cmd = "deposit" THEN "source_owner" ELSE PayerOf(cmd, args))
            /\ instructions[2].op = "initialize_account"
            /\ instructions[2].account = fresh
            /\ instructions[2].authority = VestingAddress(fresh)
            /\ instructions[3].op \in {PlainOp(cmd), WithRealmOp(cmd)}
            /\ IF cmd = "deposit"
               THEN instructions[3].account = fresh
               ELSE instructions[3].new_account = fresh /\ instructions[3].account # fresh
            /\ fresh = "vesting_token_keypair"
            /\ fresh \in signers

C20_Witness ==
    /\ InstructionsBuilt
    /\ cmd = "split"
    /\ args.payer = Some("payer_keypair")
    /\ instructions[1].funder = "payer_keypair"
    /\ pc = "done"

C20_WitnessDeposit ==
    /\ InstructionsBuilt
    /\ cmd = "deposit"
    /\ args.payer = Some("payer_keypair")
    /\ instructions[1].funder = "source_owner"
    /\ pc = "done"

\* C19: change-owner on a record with a realm puts a
\* create_voter_weight_record instruction for the new owner in the
\* transaction exactly when fetching the new owner's voter weight record
\* failed or returned empty data, and then it comes before
\* change_owner_with_realm.
C19_CreateRecordWhenMissing ==
    (InstructionsBuilt /\ cmd = "change-owner" /\ IsSome(record.realm)) =>
        /\ LastInstruction.op = "change_owner_with_realm"
        /\ IF new_voter_weight_record_data_result \in {"err", "empty"}
           THEN /\ Len(instructions) = 2
                /\ instructions[1].op = "create_voter_weight_record"
                /\ instructions[1].owner = "new_vesting_owner"
           ELSE /\ Len(instructions) = 1
                /\ new_voter_weight_record_data_result = "data"

C19_Witness ==
    /\ InstructionsBuilt
    /\ cmd = "change-owner"
    /\ new_voter_weight_record_data_result = "empty"
    /\ Len(instructions) = 2
    /\ pc = "done"

C19_WitnessPresent ==
    /\ InstructionsBuilt
    /\ cmd = "change-owner"
    /\ new_voter_weight_record_data_result = "data"
    /\ Len(instructions) = 1
    /\ pc = "done"

----------------------------------------------------------------------------
\* The compute-unit limit (checked under Spec).

\* The simulation has reported units_consumed.
UnitsReported == units_consumed # <<>>
\* units_consumed + 300 and floor((units_consumed + 300) * 110 / 100) with
\* two more limbs than a u64, where neither can wrap.
WideLimbs == U64Limbs + 2
WidePlus300 == SubSeq(MulAdd(units_consumed \o Zeros(2), 1, 300), 1, WideLimbs)
WideLimit == DivSmall(SubSeq(MulAdd(WidePlus300, 110, 0), 1, WideLimbs), 100, 0)
\* The limit placed in the transaction, widened to the same length.
LimitSet == tx.instrs[1].units \o Zeros(WideLimbs - U32Limbs)

\* C16: for every units_consumed the simulation reports, the compute-unit
\* limit set by create_transaction is floor((units_consumed + 300) * 110 /
\* 100), without wrap-around in the 64-bit arithmetic and without loss in the
\* narrowing to 32 bits, so it is never below units_consumed + 300.
C16_LimitIsExact ==
    UnitsReported =>
        /\ tx.instrs # <<>>
        /\ tx.instrs[1].op = "set_compute_unit_limit"
        /\ LimitSet = WideLimit
        /\ ~Less(LimitSet, WidePlus300)

\* What does hold: the limit is the low 32 bits of the formula's value
\* whenever units_consumed + 300 and its product by 110 fit in 64 bits.
C16_LimitIsLow32Bits ==
    (UnitsReported /\ tx.instrs # <<>>) =>
        \/ SubSeq(LimitSet, 1, U32Limbs) = SubSeq(WideLimit, 1, U32Limbs)
        \/ WidePlus300[U64Limbs + 1] # 0
        \/ MulAdd(WidePlus300, 110, 0)[U64Limbs + 1] # 0

C16_WitnessSmall ==
    /\ units_consumed = U64(2)
    /\ tx.instrs # <<>>
    /\ tx.instrs[1].units = ToLimbs(332, U32Limbs)
    /\ pc = "done"

C16_WitnessNarrowed ==
    /\ units_consumed = <<Limb - 1, Limb - 1, Limb - 1, Limb - 1, 0, 0, 0, 0>>
    /\ tx.instrs # <<>>
    /\ Less(LimitSet, WidePlus300)
    /\ pc = "done"

----------------------------------------------------------------------------
\* The compiled parameters (checked under SpecConfig).

\* The number a sequence of ASCII decimal digits denotes, as limbs two wider
\* than a u64.
RECURSIVE DecimalValue(_)
DecimalValue(digits) ==
    IF digits = <<>> THEN Zeros(U64Limbs + 2)
    ELSE SubSeq(MulAdd(DecimalValue(SubSeq(digits, 1, Len(digits) - 1)), 10,
                       digits[Len(digits)] - 48),
                1, U64Limbs + 2)

\* The bytes of an ASCII string of decimal digits given as a number's
\* leading digits followed by zeros.
DigitThenZeros(lead, zeros) == lead \o [j \in 1..zeros |-> 48]

\* C13: each compiled parameter is the decimal rendering of its constant,
\* byte for byte and of exactly that length: only ASCII digits, no leading
\* zero, no padding or terminator, denoting the constant; PARAM_TOKEN_MULT is
\* "1000000000" and PARAM_EXTRA_TOKENS is "290000000000000000".
C13_ParamsAreDecimalStrings ==
    (cmd = "neon_elf_param" /\ pc = "static") =>
        /\ Len(param.array) >= 1
        /\ \A j \in 1..Len(param.array) : param.array[j] \in 48..57
        /\ Len(param.array) > 1 => param.array[1] # 48
        /\ DecimalValue(param.array) = param.constant \o Zeros(2)
        /\ param.identifier = "PARAM_TOKEN_MULT" =>
              param.array = DigitThenZeros(<<49>>, 9)
        /\ param.identifier = "PARAM_EXTRA_TOKENS" =>
              param.array = DigitThenZeros(<<50, 57>>, 16)

C13_Witness ==
    /\ pc = "static"
    /\ param.identifier = "PARAM_EXTRA_TOKENS"
    /\ Len(param.array) = 18
    /\ param.i = 18

C13_WitnessSupplyFraction ==
    /\ pc = "static"
    /\ param.identifier = "PARAM_SUPPLY_FRACTION"
    /\ param.array = DigitThenZeros(<<49>>, 9)

----------------------------------------------------------------------------
\* The explicit branch of parse_schedules (checked under SpecSched).

\* --release-times given without --release-frequency, and parse_schedules
\* has run.
ExplicitRun ==
    /\ cmd = "parse_schedules" /\ pc # "parse_schedules"
    /\ args.freq.tag = "missing"
    /\ IsSome(args.times)

\* C21: with --release-times, parse_schedules pairs amounts and times by
\* position: as many entries as amounts, entry i made of amounts[i] and
\* release-times[i]; lists of equal length are accepted whatever their
\* length, beyond 365 entries too.
C21_ExplicitPairsByPosition ==
    (ExplicitRun /\ Len(args.amounts) = Len(args.times.v)) =>
        /\ pc = "parsed"
        /\ Len(schedules) = Len(args.amounts)
        /\ \A i \in 1..Len(schedules) :
              /\ schedules[i].amount = args.amounts[i]
              /\ schedules[i].release_time = args.times.v[i]

C21_Witness ==
    /\ ExplicitRun
    /\ pc = "parsed"
    /\ Len(schedules) = MaxPeriods + 1
    /\ schedules[2].release_time # schedules[1].release_time

C21_WitnessShort ==
    /\ ExplicitRun
    /\ pc = "parsed"
    /\ Len(schedules) = 2
    /\ schedules[1].release_time > schedules[2].release_time
    /\ schedules[1].amount < schedules[2].amount

----------------------------------------------------------------------------
\* The list report (checked under Spec).

\* list has fetched the accounts and every one decodes as a vesting record.
ListFetched ==
    /\ cmd = "list" /\ pc # "main"
    /\ LastCall.ok
    /\ \A i \in 1..Len(records) : records[i].decodes

\* The sum of a record's schedule amounts, one limb wider than a u64.
ScheduleSum(rec) == WideSum([i \in 1..Len(rec.schedule) |-> rec.schedule[i].amount])
\* The row a record is to be reported as, and how often a row occurs.
RowOf(rec) == [token |-> rec.token, owner |-> rec.owner, amount |-> ScheduleSum(rec)]
WideRow(row) == [row EXCEPT !.amount = row.amount \o <<0>>]
Occurrences(rows, row) == Cardinality({i \in 1..Len(rows) : rows[i] = row})
ReportedRows == [i \in 1..Len(report.lines) |-> WideRow(report.lines[i])]
FetchedRows == [i \in 1..Len(records) |-> RowOf(records[i].rec)]

\* Every fetched record is a row with its schedule's sum as amount.
EveryRecordReported ==
    /\ Len(report.lines) = Len(records)
    /\ \A i \in 1..Len(records) :
          Occurrences(ReportedRows, FetchedRows[i]) = Occurrences(FetchedRows, FetchedRows[i])
\* The rows are in non-increasing order of amount.
RowsNonIncreasing ==
    \A i \in 1..(Len(report.lines) - 1) :
        ~Less(report.lines[i].amount, report.lines[i + 1].amount)
\* The printed total is the sum of the printed amounts.
TotalIsSum ==
    report.total \o <<0>> =
        WideSum([i \in 1..Len(report.lines) |-> report.lines[i].amount])

\* C22: list reports every fetched vesting record with the sum of its
\* schedule amounts as amount, prints the records in non-increasing order of
\* amount, and prints a total equal to the sum of all reported amounts.
C22_ListSortedWithTotal ==
    ListFetched =>
        /\ pc = "done"
        /\ EveryRecordReported
        /\ RowsNonIncreasing
        /\ TotalIsSum

\* What does hold: a list that completes has reported every record in
\* non-increasing order, and its total is the sum unless that sum passes
\* 2^64 - 1.
C22_ListSortedTotalInRange ==
    (ListFetched /\ pc = "done") =>
        /\ EveryRecordReported
        /\ RowsNonIncreasing
        /\ \/ TotalIsSum
           \/ WideSum([i \in 1..Len(report.lines) |-> report.lines[i].amount])
                 [U64Limbs + 1] # 0

C22_WitnessWrapped ==
    /\ ListFetched
    /\ pc = "done"
    /\ Len(records) = 2
    /\ report.lines[1].amount = HalfRange
    /\ report.lines[2].amount = HalfRange
    /\ report.total = U64(0)

C22_WitnessSorted ==
    /\ ListFetched
    /\ pc = "done"
    /\ Len(records) = 2
    /\ RecordAmount(records[1].rec, FALSE).v = U64(1)
    /\ report.lines[1].amount = U64(3)
    /\ report.total = U64(4)

----------------------------------------------------------------------------
\* The fee payer (checked under Spec).

\* C23: without --payer the fee payer is the subcommand's own signer:
\* source_owner for deposit, vesting_owner for withdraw, change-owner and
\* split, vesting_authority for set-vote-percentage; with --payer it is the
\* given keypair.
C23_PayerDefaultsToOwnSigner ==
    (cmd \in TxCommands \ {"create-voter-weight-record"} /\ tx # NoTx) =>
        IF args.payer.tag = "missing"
        THEN /\ cmd = "deposit" => tx.payer = "source_owner"
             /\ cmd \in {"withdraw", "change-owner", "split"} => tx.payer = "vesting_owner"
             /\ cmd = "set-vote-percentage" => tx.payer = "vesting_authority"
        ELSE tx.payer = args.payer.v

C23_Witness ==
    /\ cmd = "set-vote-percentage"
    /\ args.payer.tag = "missing"
    /\ tx.payer = "vesting_authority"
    /\ pc = "done"

C23_WitnessGiven ==
    /\ cmd = "deposit"
    /\ args.payer = Some("payer_keypair")
    /\ tx.payer = "payer_keypair"
    /\ tx.partial_signed
    /\ pc = "done"


----------------------------------------------------------------------------
\* Properties of VOTER_LIST (checked under SpecConfig).

\* The initializer of VOTER_LIST has been evaluated to the end.
VoterListBuilt ==
    /\ cmd = "voter_weight_array"
    /\ pc = "static"

\* 1000 * 1000 * 1000 is TOKEN_MULT, so a value is a whole multiple of
\* TOKEN_MULT when it can be divided by 1000 three times without remainder.
Thousands == <<1000, 1000, 1000>>
RECURSIVE Product(_)
Product(factors) ==
    IF factors = <<>> THEN U64(1)
    ELSE SubSeq(MulAdd(Product(Tail(factors)), Head(factors), 0), 1, U64Limbs)
RECURSIVE DividesExactly(_, _)
DividesExactly(factors, x) ==
    \/ factors = <<>>
    \/ /\ RemSmall(x, Head(factors), 0) = 0
       /\ DividesExactly(Tail(factors), DivSmall(x, Head(factors), 0))
PositiveMultipleOfTokenMult(x) ==
    /\ Product(Thousands) = TOKEN_MULT
    /\ x # Zeros(U64Limbs)
    /\ DividesExactly(Thousands, x)

\* C24: in the build with the feature "mainnet" and in the build without it,
\* no address occurs in two elements of VOTER_LIST, and every element's
\* weight is a positive whole multiple of TOKEN_MULT.
C24_VoterListUniquePositiveMultiples ==
    VoterListBuilt =>
        /\ \A m, n \in 1..Len(param.array) :
              m # n => param.array[m][1] # param.array[n][1]
        /\ \A m \in 1..Len(param.array) :
              PositiveMultipleOfTokenMult(param.array[m][2])

C24_Witness ==
    /\ VoterListBuilt
    /\ "mainnet" \in args.features
    /\ Len(param.array) = Len(VOTER_LIST_mainnet)
    /\ Len(param.array) > 1

C24_WitnessDefault ==
    /\ VoterListBuilt
    /\ "mainnet" \notin args.features
    /\ Len(param.array) = Len(VOTER_LIST_default)
    /\ Len(param.array) > 1

====
